---- MODULE Spec2Model ----
(***************************************************************************)
(* confit: the git output parsers (src/git/parse*.rs), the check registry  *)
(* and evaluators (src/preserves.rs), the data providers (src/git.rs) and  *)
(* the run of real_main (src/main.rs).                                     *)
(*                                                                         *)
(* Text is a sequence of one-character strings, so that the parsers work   *)
(* on characters as the nom combinators do.                                *)
(***************************************************************************)
EXTENDS Integers, Sequences, FiniteSets, TLC

VARIABLES
  pc,           \* position of real_main
  opt,          \* the parsed command line: [checks, example]
  checks,       \* the selected checks (indices into ALL_CHECKS, in order)
  reqs,         \* required_sources() of the selection (a Group bitset)
  calls,        \* the Provider::collect calls made so far, in order
  ls_remote,    \* what LsRemote.collect returned, None before
  gitstatus,    \* what GetStatus.collect returned, None before
  summary,      \* the Summary, None until Summary::new has run
  items,        \* Summary::items() as handed to the renderer
  exit,         \* the process exit code, -1 while running
  input,        \* the text handed to a parser
  result        \* what the parser returned

vars == <<pc, opt, checks, reqs, calls, ls_remote, gitstatus, summary,
          items, exit, input, result>>

----------------------------------------------------------------------------
(* Option<T>, nom's IResult and small sequence helpers                     *)

None == [some |-> FALSE]
Some(x) == [some |-> TRUE, val |-> x]

Ok(rest, v) == [ok |-> TRUE, rest |-> rest, val |-> v]
Fail(rest) == [ok |-> FALSE, rest |-> rest]

Drop(s, n) == SubSeq(s, n + 1, Len(s))
Take(s, n) == SubSeq(s, 1, n)
IsPrefix(p, s) == Len(p) <= Len(s) /\ Take(s, Len(p)) = p
Rep(c, n) == [i \in 1..n |-> c]

RECURSIVE Find(_, _, _)
\* index of the first occurrence of p in s at or after i, 0 when there is none
Find(p, s, i) ==
  IF i + Len(p) - 1 > Len(s) THEN 0
  ELSE IF SubSeq(s, i, i + Len(p) - 1) = p THEN i
  ELSE Find(p, s, i + 1)

RECURSIVE Span(_, _, _)
\* length of the longest prefix of s, from index i on, whose characters are in cs
Span(cs, s, i) ==
  IF i <= Len(s) /\ s[i] \in cs THEN 1 + Span(cs, s, i + 1) ELSE 0

\* a thread that panicked: the parser returns nothing
Panicked == [ok |-> FALSE, panic |-> TRUE]

IsPanic(r) == "panic" \in DOMAIN r

----------------------------------------------------------------------------
(* nom combinators used by the parsers                                     *)

tag(p, s) == IF IsPrefix(p, s) THEN Ok(Drop(s, Len(p)), p) ELSE Fail(s)

take(n, s) == IF Len(s) >= n THEN Ok(Drop(s, n), Take(s, n)) ELSE Fail(s)

take_until(p, s) ==
  LET k == Find(p, s, 1)
  IN IF k = 0 THEN Fail(s) ELSE Ok(Drop(s, k - 1), Take(s, k - 1))

take_while(cs, s) ==
  LET n == Span(cs, s, 1) IN Ok(Drop(s, n), Take(s, n))

take_while_m_n(m, n, cs, s) ==
  LET k == Span(cs, s, 1)
      l == IF k > n THEN n ELSE k
  IN IF k < m THEN Fail(s) ELSE Ok(Drop(s, l), Take(s, l))

RECURSIVE SpanNot(_, _, _)
SpanNot(cs, s, i) ==
  IF i <= Len(s) /\ s[i] \notin cs THEN 1 + SpanNot(cs, s, i + 1) ELSE 0

take_till1(cs, s) ==
  LET n == SpanNot(cs, s, 1)
  IN IF n = 0 THEN Fail(s) ELSE Ok(Drop(s, n), Take(s, n))

one_of(cs, s) ==
  IF s # <<>> /\ s[1] \in cs THEN Ok(Drop(s, 1), s[1]) ELSE Fail(s)

\* terminated(p, tag(t)) applied to the result r of p
terminated(r, t) ==
  IF ~r.ok THEN r
  ELSE LET e == tag(t, r.rest)
       IN IF e.ok THEN Ok(e.rest, r.val) ELSE e

\* map(p, f) applied to the result r of p, with v the mapped value
map(r, v) == IF r.ok THEN Ok(r.rest, v) ELSE r

\* a value put in front of the values of a later result
cons(v, more) == IF more.ok THEN Ok(more.rest, <<v>> \o more.val) ELSE more

----------------------------------------------------------------------------
(* src/git/parse.rs: shared scanners and the settling of a nom result      *)

Digits == {"0", "1", "2", "3", "4", "5", "6", "7", "8", "9"}
OctalDigits == {"0", "1", "2", "3", "4", "5", "6", "7"}
HexDigits == Digits \cup {"a", "b", "c", "d", "e", "f", "A", "B", "C", "D", "E", "F"}

is_digit(c) == c \in Digits
is_hex_digit(c) == c \in HexDigits

DigitChars == <<"0", "1", "2", "3", "4", "5", "6", "7", "8", "9">>
DigitVal(c) == (CHOOSE i \in 1..10 : DigitChars[i] = c) - 1

RECURSIVE DecVal(_)
DecVal(s) == IF s = <<>> THEN 0 ELSE 10 * DecVal(Take(s, Len(s) - 1)) + DigitVal(s[Len(s)])

RECURSIVE StripZeros(_)
StripZeros(s) == IF s # <<>> /\ s[1] = "0" THEN StripZeros(Drop(s, 1)) ELSE s

RECURSIVE LexLeq(_, _)
\* a <= b for digit strings of the same length
LexLeq(a, b) ==
  IF a = <<>> THEN TRUE
  ELSE IF a[1] = b[1] THEN LexLeq(Drop(a, 1), Drop(b, 1))
  ELSE DigitVal(a[1]) < DigitVal(b[1])

U64_MAX == <<"1", "8", "4", "4", "6", "7", "4", "4", "0", "7", "3", "7", "0", "9", "5", "5", "1", "6", "1", "5">>
U8_MAX == <<"2", "5", "5">>

\* str::parse::<uN>() of a string of decimal digits; max is uN::MAX in digits
parse_uint(s, max) ==
  LET t == StripZeros(s)
  IN IF s = <<>> THEN Fail(s)
     ELSE IF Len(t) > Len(max) \/ (Len(t) = Len(max) /\ ~LexLeq(t, max)) THEN Fail(s)
     ELSE Ok(<<>>, DecVal(t))

\* map_res(p, |n| n.parse()) applied to the result r of p
map_res_uint(r, max, at) ==
  IF ~r.ok THEN r
  ELSE LET n == parse_uint(r.val, max)
       IN IF n.ok THEN Ok(r.rest, n.val) ELSE Fail(at)

sha(s) == take_while_m_n(40, 40, HexDigits, s)

end_of_path(c) == c \in {"\t", "\n"}

\* a filepath that ends at a space as well
filepath_to_space(s) == take_till1({"\t", "\n", " "}, s)

filepath(s) == take_till1({"\t", "\n"}, s)

\* a settling that reports what the parser left unread as Failed
settle_as_failed(r) ==
  IF r.ok /\ r.rest = <<>> THEN [kind |-> "Ok", val |-> r.val]
  ELSE [kind |-> "Failed", rest |-> r.rest]

\* a settling that drops what the parser left unread
settle_ignoring_rest(r) ==
  IF r.ok THEN [kind |-> "Ok", val |-> r.val] ELSE [kind |-> "Failed", rest |-> r.rest]

\* parse::Err: Trailing(rest) | Failed(rest) ; nom's complete parsers never
\* return Incomplete
settle_parse_result(r) ==
  IF r.ok /\ r.rest = <<>> THEN [kind |-> "Ok", val |-> r.val]
  ELSE IF r.ok THEN [kind |-> "Trailing", rest |-> r.rest]
  ELSE [kind |-> "Failed", rest |-> r.rest]

----------------------------------------------------------------------------
(* src/git/parse/status.rs: git status --branch --porcelain=v2             *)
(* A parser that is a chain of `let (i, x) = p(i)?;` steps, or a tuple,    *)
(* delimited or separated_pair, is the sequence of its steps (Fields).     *)

SP == <<" ">>
NL == <<"\n">>
TAB == <<"\t">>
BRANCH_OID == <<"#", " ", "b", "r", "a", "n", "c", "h", ".", "o", "i", "d", " ">>
BRANCH_HEAD == <<"#", " ", "b", "r", "a", "n", "c", "h", ".", "h", "e", "a", "d", " ">>
BRANCH_UPSTREAM == <<"#", " ", "b", "r", "a", "n", "c", "h", ".", "u", "p", "s", "t", "r", "e", "a", "m", " ">>
BRANCH_AB == <<"#", " ", "b", "r", "a", "n", "c", "h", ".", "a", "b", " ">>
INITIAL == <<"(", "i", "n", "i", "t", "i", "a", "l", ")">>
DETACHED == <<"(", "d", "e", "t", "a", "c", "h", "e", "d", ")">>
\* alt((a, b)) applied to the results a and b of its branches
alt(a, b) == IF a.ok THEN a ELSE b

\* opt(p) applied to the result r of p on s
optional(r, s) == IF r.ok THEN Ok(r.rest, Some(r.val)) ELSE Ok(s, None)

\* the digit read in radix 10
from_decimal(c) == IF c[1] \in Digits THEN Ok(<<>>, DigitVal(c[1])) ELSE Fail(c)

from_octal(c) == IF c[1] \in OctalDigits THEN Ok(<<>>, DigitVal(c[1])) ELSE Fail(c)

\* map_res(take(1), from_octal) applied to the result r of take(1) on s
octal_of(r, s) ==
  IF ~r.ok THEN r
  ELSE IF from_octal(r.val).ok THEN Ok(r.rest, from_octal(r.val).val)
  ELSE Fail(s)

octal(s) == octal_of(take(1, s), s)

RECURSIVE count_octal(_, _)
\* count(octal, n)
count_more(r, n) == IF r.ok THEN cons(r.val, count_octal(n - 1, r.rest)) ELSE r
count_octal(n, s) == IF n = 0 THEN Ok(s, <<>>) ELSE count_more(octal(s), n)

MODE_DIGITS == 6

mode(s) == count_octal(MODE_DIGITS, s)

\* the match of line_status on the result r of take(1)
line_status_of(r) ==
  IF ~r.ok THEN r
  ELSE CASE r.val = <<".">> -> Ok(r.rest, "Unmodified")
         [] r.val = <<"M">> -> Ok(r.rest, "Modified")
         [] r.val = <<"A">> -> Ok(r.rest, "Added")
         [] r.val = <<"D">> -> Ok(r.rest, "Deleted")
         [] r.val = <<"R">> -> Ok(r.rest, "Renamed")
         [] r.val = <<"C">> -> Ok(r.rest, "Copied")
         [] r.val = <<"U">> -> Ok(r.rest, "Unmerged")
         [] r.val = <<"?">> -> Ok(r.rest, "Untracked")
         [] r.val = <<"!">> -> Ok(r.rest, "Ignored")
         [] OTHER -> Fail(r.rest)

line_status(s) == line_status_of(take(1, s))

\* map(one_of(pattern), |c| c != '.') applied to the result r of one_of
submodule_status_flag(r) == map(r, r.val # ".")

\* tagged_score and tagged_commits: map_res(preceded(tag(pattern),
\* take_while(is_digit)), |n| n.parse()), with max the MAX of the parsed type
digits_after(t) == IF t.ok THEN take_while(Digits, t.rest) ELSE t

tagged_score(pattern, s) == map_res_uint(digits_after(tag(pattern, s)), U8_MAX, s)

tagged_commits(pattern, s) == map_res_uint(digits_after(tag(pattern, s)), U64_MAX, s)

rename_score(r) == map(r, [score |-> "Rename", percent |-> r.val])
copy_score(r) == map(r, [score |-> "Copy", percent |-> r.val])

change_score(s) ==
  alt(rename_score(tagged_score(<<"R">>, s)), copy_score(tagged_score(<<"C">>, s)))

oid_initial(r) == map(r, [oid |-> "Initial"])
oid_commit(r) == map(r, [oid |-> "Commit", name |-> r.val])
head_detached(r) == map(r, [head |-> "Detached"])
head_branch(r) == map(r, [head |-> "Branch", name |-> r.val])

\* one step of a parser: a literal tag, or a named scanner
T(lit) == [k |-> "tag", t |-> lit]
F(name) == [k |-> name]

Field(item, s) ==
  CASE item.k = "tag" -> tag(item.t, s)
    [] item.k = "line_status" -> line_status(s)
    [] item.k = "one_of" -> one_of(item.cs, s)
    [] item.k = "flag" -> submodule_status_flag(one_of(item.cs, s))
    [] item.k = "mode" -> mode(s)
    [] item.k = "sha" -> sha(s)
    [] item.k = "filepath" -> filepath(s)
    [] item.k = "change_score" -> change_score(s)
    [] item.k = "tagged_commits" -> tagged_commits(item.t, s)
    [] item.k = "until_newline" -> take_until(NL, s)
    [] item.k = "oid" ->
         alt(oid_initial(tag(INITIAL, s)), oid_commit(take_until(NL, s)))
    [] item.k = "head" ->
         alt(head_detached(tag(DETACHED, s)), head_branch(take_until(NL, s)))

RECURSIVE Fields(_, _)
\* the steps in order, each on what the one before left; the first failure
\* is the failure of the whole
and_then(r, its) == IF r.ok THEN cons(r.val, Fields(its, r.rest)) ELSE r
Fields(its, s) ==
  IF its = <<>> THEN Ok(s, <<>>) ELSE and_then(Field(its[1], s), Tail(its))

status_pair_of(r) == map(r, [staged |-> r.val[1], unstaged |-> r.val[2]])

status_pair(s) == status_pair_of(Fields(<<F("line_status"), F("line_status")>>, s))

Dot == [k |-> "one_of", cs |-> {"."}]
Flag(c) == [k |-> "flag", cs |-> {c, "."}]

sub_not(r) == map(r, [sub |-> "Not"])
sub_is(r) == map(r, [sub |-> "Is", c |-> r.val[1], m |-> r.val[2], u |-> r.val[3]])

\* the match of submodule_status on the result r of one_of("NS")
submodule_status_of(r) ==
  IF ~r.ok THEN r
  ELSE IF r.val = "N" THEN sub_not(Fields(<<Dot, Dot, Dot>>, r.rest))
  ELSE IF r.val = "S" THEN sub_is(Fields(<<Flag("C"), Flag("M"), Flag("U")>>, r.rest))
  ELSE Panicked

submodule_status(s) == submodule_status_of(one_of({"N", "S"}, s))

\* the scanners of Field, and the two that are themselves sequences
Step(item, s) ==
  CASE item.k = "status_pair" -> status_pair(s)
    [] item.k = "submodule_status" -> submodule_status(s)
    [] OTHER -> Field(item, s)

RECURSIVE Steps(_, _)
then_steps(r, its) == IF r.ok THEN cons(r.val, Steps(its, r.rest)) ELSE r
Steps(its, s) ==
  IF its = <<>> THEN Ok(s, <<>>) ELSE then_steps(Step(its[1], s), Tail(its))

untracked_of(r) == map(r, [variant |-> "Untracked", path |-> r.val])
ignored_of(r) == map(r, [variant |-> "Ignored", path |-> r.val])

untracked_line(s) == untracked_of(filepath(s))

ignored_line(s) == ignored_of(filepath(s))

one_of_fields(r) ==
  map(r, [variant |-> "One", status |-> r.val[1], sub |-> r.val[3],
          head_mode |-> r.val[5], index_mode |-> r.val[7], worktree_mode |-> r.val[9],
          head_obj |-> r.val[11], index_obj |-> r.val[13], path |-> r.val[15]])

one_file_line(s) ==
  one_of_fields(Steps(<<F("status_pair"), T(SP), F("submodule_status"), T(SP),
                        F("mode"), T(SP), F("mode"), T(SP), F("mode"), T(SP),
                        F("sha"), T(SP), F("sha"), T(SP), F("filepath")>>, s))

two_of_fields(r) ==
  map(r, [variant |-> "Two", status |-> r.val[1], sub |-> r.val[3],
          head_mode |-> r.val[5], index_mode |-> r.val[7], worktree_mode |-> r.val[9],
          head_obj |-> r.val[11], index_obj |-> r.val[13], change_score |-> r.val[15],
          path |-> r.val[17], orig_path |-> r.val[19]])

two_file_line(s) ==
  two_of_fields(Steps(<<F("status_pair"), T(SP), F("submodule_status"), T(SP),
                        F("mode"), T(SP), F("mode"), T(SP), F("mode"), T(SP),
                        F("sha"), T(SP), F("sha"), T(SP), F("change_score"), T(SP),
                        F("filepath"), T(TAB), F("filepath")>>, s))

unmerged_of_fields(r) ==
  map(r, [variant |-> "Unmerged", status |-> r.val[1], sub |-> r.val[3],
          stage1_mode |-> r.val[5], stage2_mode |-> r.val[7], stage3_mode |-> r.val[9],
          worktree_mode |-> r.val[11], stage1_obj |-> r.val[13], stage2_obj |-> r.val[15],
          stage3_obj |-> r.val[17], path |-> r.val[19]])

unmerged_file_line(s) ==
  unmerged_of_fields(Steps(<<F("status_pair"), T(SP), F("submodule_status"), T(SP),
                             F("mode"), T(SP), F("mode"), T(SP), F("mode"), T(SP),
                             F("mode"), T(SP), F("sha"), T(SP), F("sha"), T(SP),
                             F("sha"), T(SP), F("filepath")>>, s))

\* preceded(tag(..), line parser), on the result t of the tag
pre_untracked(t) == IF t.ok THEN untracked_line(t.rest) ELSE t
pre_ignored(t) == IF t.ok THEN ignored_line(t.rest) ELSE t
pre_one(t) == IF t.ok THEN one_file_line(t.rest) ELSE t
pre_two(t) == IF t.ok THEN two_file_line(t.rest) ELSE t
pre_unmerged(t) == IF t.ok THEN unmerged_file_line(t.rest) ELSE t

status_line(s) ==
  alt(pre_untracked(tag(<<"?", " ">>, s)),
  alt(pre_ignored(tag(<<"!", " ">>, s)),
  alt(pre_one(tag(<<"1", " ">>, s)),
  alt(pre_two(tag(<<"2", " ">>, s)),
      pre_unmerged(tag(<<"u", " ">>, s))))))

RECURSIVE status_lines(_)
\* many0(terminated(status_line, tag("\n"))): stops, without failing, at the
\* first line that does not parse
more_lines(r, s) == IF r.ok THEN cons(r.val, status_lines(r.rest)) ELSE Ok(s, <<>>)
status_lines(s) == more_lines(terminated(status_line(s), NL), s)

second(r) == map(r, r.val[2])

branch_oid(s) == second(Fields(<<T(BRANCH_OID), F("oid"), T(NL)>>, s))

branch_head(s) == second(Fields(<<T(BRANCH_HEAD), F("head"), T(NL)>>, s))

branch_upstream(s) == second(Fields(<<T(BRANCH_UPSTREAM), F("until_newline"), T(NL)>>, s))

commits_of(r) == map(r, [ahead |-> r.val[2], behind |-> r.val[4]])

branch_commits(s) ==
  commits_of(Fields(<<T(BRANCH_AB), [k |-> "tagged_commits", t |-> <<"+">>], T(SP),
                      [k |-> "tagged_commits", t |-> <<"-">>], T(NL)>>, s))

\* the four steps of branch, each on what the one before left
branch_4(oid, head, upstream, commits) ==
  map(commits, [oid |-> oid, head |-> head, upstream |-> upstream.val,
                commits |-> commits.val])
branch_3(oid, head, upstream) ==
  branch_4(oid, head, upstream, optional(branch_commits(upstream.rest), upstream.rest))
branch_2(oid, head) ==
  IF head.ok
  THEN branch_3(oid, head.val, optional(branch_upstream(head.rest), head.rest))
  ELSE head
branch_1(oid) == IF oid.ok THEN branch_2(oid.val, branch_head(oid.rest)) ELSE oid

branch(s) == branch_1(branch_oid(s))

status_of(b, lines) == map(lines, [branch |-> b.val, lines |-> lines.val])
status_after(b) == status_of(b, status_lines(b.rest))

\* a status whose header is not optional
status_with_branch(s) ==
  IF branch(s).ok THEN status_after(Ok(branch(s).rest, Some(branch(s).val))) ELSE branch(s)

status(s) == status_after(optional(branch(s), s))

parse(s) == settle_parse_result(status(s))

----------------------------------------------------------------------------
(* src/preserves.rs: datasource::Group, a bitset over the three sources    *)

RECURSIVE BitOr(_, _)
BitOr(a, b) ==
  IF a = 0 THEN b
  ELSE IF b = 0 THEN a
  ELSE (IF a % 2 = 1 \/ b % 2 = 1 THEN 1 ELSE 0) + 2 * BitOr(a \div 2, b \div 2)

RECURSIVE BitAnd(_, _)
BitAnd(a, b) ==
  IF a = 0 \/ b = 0 THEN 0
  ELSE (IF a % 2 = 1 /\ b % 2 = 1 THEN 1 ELSE 0) + 2 * BitAnd(a \div 2, b \div 2)

RECURSIVE Shl(_, _)
\* 1 << n
Shl(x, n) == IF n = 0 THEN x ELSE Shl(2 * x, n - 1)

EMPTY == 0
STATUS == 1
REFS == Shl(1, 1)
REMOTE == Shl(1, 2)

\* an includes that asks for every source of the item
includes_all(self, item) == BitAnd(self, item) = item

includes(self, item) == BitAnd(self, item) # 0

\* the two groups added instead of or-ed
union_sum(l, r) == l + r

union(l, r) == BitOr(l, r)

----------------------------------------------------------------------------
(* src/preserves.rs: CheckResult and its conversions                       *)

Passed == [r |-> "Passed"]
Failed == [r |-> "Failed"]
Bad(n) == [r |-> "Bad", n |-> n]

from_usize(n) == IF n = 0 THEN Passed ELSE Bad(n)

\* From<u64> on the counts of the status header, which the model holds as
\* integers below 2^31: there n as usize is n on 32-bit and 64-bit targets
from_u64(n) == from_usize(n)

\* A count of any size is held as its 16-bit limbs, the low one first; a
\* usize has bits \div 16 of them in use
LimbBase == 256 * 256

Limbs(bits) == bits \div 16

U64Bits == 64

UsizeBits == {32, 64}

\* n as usize: the low limbs that fit the target's usize
as_usize(w, bits) == [i \in DOMAIN w |-> IF i <= Limbs(bits) THEN w[i] ELSE 0]

IsZero(w) == \A i \in DOMAIN w : w[i] = 0

\* From<usize> on limbs
from_usize_limbs(n) == IF IsZero(n) THEN Passed ELSE Bad(n)

\* From<u64> on limbs: CheckResult::from(n as usize)
from_u64_limbs(n, bits) == from_usize_limbs(as_usize(n, bits))

from_bool(x) == IF x THEN Passed ELSE Failed

----------------------------------------------------------------------------
(* src/preserves.rs: the check evaluators, over a Summary                  *)
(* s = [status, ls_remote, for_each_ref, checks]                           *)

\* iter().filter(p).count() over the status lines
CountLines(s, P(_)) == Cardinality({i \in DOMAIN s.status.lines : P(s.status.lines[i])})

\* a count that takes the ignored paths for untracked ones
untracked_or_ignored(s) ==
  from_usize(CountLines(s, LAMBDA line : line.variant \in {"Untracked", "Ignored"}))

untracked_files(s) ==
  from_usize(CountLines(s, LAMBDA line : line.variant = "Untracked"))

\* a count that leaves the unmerged entries out
modified_files_skip_unmerged(s) ==
  from_usize(CountLines(s, LAMBDA line :
    /\ line.variant \in {"One", "Two"}
    /\ line.status.unstaged # "Unmodified"))

modified_files(s) ==
  from_usize(CountLines(s, LAMBDA line :
    /\ line.variant \in {"One", "Two", "Unmerged"}
    /\ line.status.unstaged # "Unmodified"))

uncommited_changes(s) ==
  from_usize(CountLines(s, LAMBDA line :
    /\ line.variant \in {"One", "Two", "Unmerged"}
    /\ line.status.staged # "Unmodified"))

\* a missing branch taken for a head that is not detached
detached_head_without_branch(s) ==
  from_bool(IF s.status.branch.some
            THEN s.status.branch.val.head.head # "Detached"
            ELSE TRUE)

detached_head(s) ==
  from_bool(IF s.status.branch.some
            THEN s.status.branch.val.head.head # "Detached"
            ELSE FALSE)

\* the sense of the upstream test turned around
untracked_branch_inverted(s) ==
  from_bool(IF s.status.branch.some
            THEN ~s.status.branch.val.upstream.some
            ELSE FALSE)

untracked_branch(s) ==
  from_bool(IF s.status.branch.some
            THEN s.status.branch.val.upstream.some
            ELSE FALSE)

\* a default of 0 where the branch or its counts are missing
remote_changes_default_zero(s) ==
  from_u64(IF s.status.branch.some
           THEN (IF s.status.branch.val.commits.some
                 THEN s.status.branch.val.commits.val.behind
                 ELSE 0)
           ELSE 0)

remote_changes(s) ==
  from_u64(IF s.status.branch.some
           THEN (IF s.status.branch.val.commits.some
                 THEN s.status.branch.val.commits.val.behind
                 ELSE 1)
           ELSE 1)

unpushed_commit(s) ==
  from_u64(IF s.status.branch.some
           THEN (IF s.status.branch.val.commits.some
                 THEN s.status.branch.val.commits.val.ahead
                 ELSE 1)
           ELSE 1)

\* the last matching record instead of the first
tag_on_commit_last(s, c) ==
  LET hits == {i \in DOMAIN s.for_each_ref :
                 /\ s.for_each_ref[i].object_type = "Tag"
                 /\ s.for_each_ref[i].referred_object.some
                 /\ s.for_each_ref[i].referred_object.val = c}
  IN IF hits = {} THEN None
     ELSE Some(s.for_each_ref[CHOOSE i \in hits : \A j \in hits : i >= j].object_name)

\* a match on the referred object alone, whatever the object type
tag_on_commit_any_type(s, c) ==
  LET hits == {i \in DOMAIN s.for_each_ref :
                 /\ s.for_each_ref[i].referred_object.some
                 /\ s.for_each_ref[i].referred_object.val = c}
  IN IF hits = {} THEN None
     ELSE Some(s.for_each_ref[CHOOSE i \in hits : \A j \in hits : i <= j].object_name)

\* Summary::tag_on_commit: the object_name of the first record, in listing
\* order, that is a Tag whose referred_object is c
tag_on_commit(s, c) ==
  LET hits == {i \in DOMAIN s.for_each_ref :
                 /\ s.for_each_ref[i].object_type = "Tag"
                 /\ s.for_each_ref[i].referred_object.some
                 /\ s.for_each_ref[i].referred_object.val = c}
  IN IF hits = {} THEN None
     ELSE Some(s.for_each_ref[CHOOSE i \in hits : \A j \in hits : i <= j].object_name)

untagged_commit(s) ==
  from_bool(IF s.status.branch.some /\ s.status.branch.val.oid.oid = "Commit"
            THEN tag_on_commit(s, s.status.branch.val.oid.name).some
            ELSE FALSE)

unpushed_tag(s) ==
  from_bool(IF s.status.branch.some /\ s.status.branch.val.oid.oid = "Commit"
            THEN LET t == tag_on_commit(s, s.status.branch.val.oid.name)
                 IN IF t.some
                    THEN \E i \in DOMAIN s.ls_remote : s.ls_remote[i].refname = t.val
                    ELSE FALSE
            ELSE FALSE)

----------------------------------------------------------------------------
(* src/preserves.rs: the registry                                          *)

ALL_CHECKS == <<
  [label |-> "all commits pushed to remote", tags |-> <<"push", "local", "git_prompt">>,
   status_group |-> 2, required_data |-> STATUS, eval |-> "unpushed_commit", threshold |-> 0],
  [label |-> "all commits merged from remote", tags |-> <<"merge">>,
   status_group |-> 3, required_data |-> union(STATUS, REMOTE), eval |-> "remote_changes", threshold |-> 0],
  [label |-> "no uncommited changes", tags |-> <<"commit", "local", "git_prompt">>,
   status_group |-> 1, required_data |-> STATUS, eval |-> "uncommited_changes", threshold |-> 0],
  [label |-> "no unstaged changes", tags |-> <<"stage", "local", "git_prompt">>,
   status_group |-> 1, required_data |-> STATUS, eval |-> "modified_files", threshold |-> 0],
  [label |-> "all files tracked", tags |-> <<"track_files", "local", "git_prompt">>,
   status_group |-> 1, required_data |-> STATUS, eval |-> "untracked_files", threshold |-> 0],
  [label |-> "commit tracked by local ref", tags |-> <<"detached", "local", "git_prompt">>,
   status_group |-> 1, required_data |-> STATUS, eval |-> "detached_head", threshold |-> 0],
  [label |-> "branch tracks remote", tags |-> <<"track_remote", "local", "git_prompt">>,
   status_group |-> 2, required_data |-> STATUS, eval |-> "untracked_branch", threshold |-> 0],
  [label |-> "current commit is tagged", tags |-> <<"tag", "local">>,
   status_group |-> 4, required_data |-> union(STATUS, REFS), eval |-> "untagged_commit", threshold |-> 0],
  [label |-> "tag is pushed", tags |-> <<"push_tag">>,
   status_group |-> 4, required_data |-> union(STATUS, REMOTE), eval |-> "unpushed_tag", threshold |-> 0]
>>

\* (check.eval)(summary)
Eval(check, s) ==
  CASE check.eval = "unpushed_commit" -> unpushed_commit(s)
    [] check.eval = "remote_changes" -> remote_changes(s)
    [] check.eval = "uncommited_changes" -> uncommited_changes(s)
    [] check.eval = "modified_files" -> modified_files(s)
    [] check.eval = "untracked_files" -> untracked_files(s)
    [] check.eval = "detached_head" -> detached_head(s)
    [] check.eval = "untracked_branch" -> untracked_branch(s)
    [] check.eval = "untagged_commit" -> untagged_commit(s)
    [] check.eval = "unpushed_tag" -> unpushed_tag(s)

Range(f) == {f[i] : i \in DOMAIN f}

\* the selections are kept as sequences of indices into ALL_CHECKS
all_checks == [i \in DOMAIN ALL_CHECKS |-> i]

\* a check is kept when any of the caller's tags is any of its tags
has_tag(ch, tags) ==
  \E t \in DOMAIN tags : \E c \in DOMAIN ALL_CHECKS[ch].tags :
    tags[t] = ALL_CHECKS[ch].tags[c]

RECURSIVE FilterTagged(_, _)
\* ALL_CHECKS.iter().filter(..).collect(), from index k on
FilterTagged(tags, k) ==
  IF k > Len(ALL_CHECKS) THEN <<>>
  ELSE (IF has_tag(k, tags) THEN <<k>> ELSE <<>>) \o FilterTagged(tags, k + 1)

RECURSIVE PerTag(_, _)
\* the checks of each of the caller's tags in turn, one list after the other
PerTag(tags, k) ==
  IF k > Len(tags) THEN <<>>
  ELSE FilterTagged(<<tags[k]>>, 1) \o PerTag(tags, k + 1)

tagged_checks_per_tag(tags) == PerTag(tags, 1)

tagged_checks(tags) == FilterTagged(tags, 1)

all_tags == UNION {Range(ALL_CHECKS[i].tags) : i \in DOMAIN ALL_CHECKS}

RECURSIVE FoldGroups(_, _, _)
FoldGroups(acc, cs, k) ==
  IF k > Len(cs) THEN acc
  ELSE FoldGroups(BitOr(acc, ALL_CHECKS[cs[k]].required_data), cs, k + 1)

required_sources(cs) == FoldGroups(EMPTY, cs, 1)

Summary_new(remote, st, refs, cs) ==
  [ls_remote |-> remote, status |-> st, for_each_ref |-> refs, checks |-> cs]

Item_build(check, s) ==
  LET res == Eval(ALL_CHECKS[check], s)
  IN [check |-> check, result |-> res, passed |-> (res.r = "Passed")]

\* only the checks that did not pass get an item
Summary_items_failing_only(s) ==
  SelectSeq([i \in DOMAIN s.checks |-> Item_build(s.checks[i], s)], LAMBDA it : ~it.passed)

Summary_items(s) == [i \in DOMAIN s.checks |-> Item_build(s.checks[i], s)]

RECURSIVE FoldStatus(_, _, _)
FoldStatus(st, its, k) ==
  IF k > Len(its) THEN st
  ELSE FoldStatus(IF its[k].passed THEN st
                  ELSE BitOr(st, Shl(1, ALL_CHECKS[its[k].check].status_group)),
                  its, k + 1)

RECURSIVE FoldStatusSum(_, _, _)
\* the groups of the failing checks added up instead of or-ed
FoldStatusSum(st, its, k) ==
  IF k > Len(its) THEN st
  ELSE FoldStatusSum(IF its[k].passed THEN st
                     ELSE st + Shl(1, ALL_CHECKS[its[k].check].status_group),
                     its, k + 1)

exit_status_sum(s) == FoldStatusSum(0, Summary_items(s), 1)

exit_status(s) == FoldStatus(0, Summary_items(s), 1)

----------------------------------------------------------------------------
(* src/git/parse/ls_remote.rs: git ls-remote                               *)

ref_pair_of(r) == map(r, [refname |-> r.val[1], path |-> r.val[3]])

ref_pair(s) == ref_pair_of(Fields(<<F("sha"), T(TAB), F("filepath")>>, s))

RECURSIVE many0_ref_pair(_)
\* many0(terminated(ref_pair, tag("\n")))
more_pairs(r, s) == IF r.ok THEN cons(r.val, many0_ref_pair(r.rest)) ELSE Ok(s, <<>>)
many0_ref_pair(s) == more_pairs(terminated(ref_pair(s), NL), s)

\* a ref_pairs that drops what many0 left unread
ref_pairs_ignoring_rest(s) == settle_ignoring_rest(many0_ref_pair(s))

ref_pairs(s) == settle_parse_result(many0_ref_pair(s))

----------------------------------------------------------------------------
(* u64 arithmetic on limbs                                                 *)

ZeroU64 == [i \in 1..Limbs(U64Bits) |-> 0]

RECURSIVE MulAdd10(_, _, _)
\* 10 * w + c, from limb i on
MulAdd10(w, c, i) ==
  IF i > Len(w) THEN <<>>
  ELSE <<(10 * w[i] + c) % LimbBase>> \o MulAdd10(w, (10 * w[i] + c) \div LimbBase, i + 1)

RECURSIVE u64_of(_)
\* the value of a string of decimal digits that is at most u64::MAX
u64_of(s) ==
  IF s = <<>> THEN ZeroU64
  ELSE MulAdd10(u64_of(Take(s, Len(s) - 1)), DigitVal(s[Len(s)]), 1)

\* str::parse::<u64>() of a string of decimal digits
parse_u64(s) ==
  IF s = <<>> THEN Fail(s)
  ELSE IF Len(StripZeros(s)) > Len(U64_MAX) THEN Fail(s)
  ELSE IF Len(StripZeros(s)) = Len(U64_MAX) /\ ~LexLeq(StripZeros(s), U64_MAX) THEN Fail(s)
  ELSE Ok(<<>>, u64_of(StripZeros(s)))

RECURSIVE AddLimbs(_, _, _, _)
\* a + b + c from limb i on, the last carry as one limb more
AddLimbs(a, b, c, i) ==
  IF i > Len(a) THEN <<c>>
  ELSE <<(a[i] + b[i] + c) % LimbBase>>
       \o AddLimbs(a, b, (a[i] + b[i] + c) \div LimbBase, i + 1)

\* a + b on u64: the wrapped sum, and whether it overflowed
overflowing_add(a, b) ==
  [val |-> Take(AddLimbs(a, b, 0, 1), Len(a)),
   overflow |-> AddLimbs(a, b, 0, 1)[Len(a) + 1] # 0]

----------------------------------------------------------------------------
(* src/git/parse/for_each_ref.rs: the tracking annotation                  *)

AHEAD == <<"a", "h", "e", "a", "d", " ">>
BEHIND == <<"b", "e", "h", "i", "n", "d", " ">>
GONE == <<"[", "g", "o", "n", "e", "]">>
LIST_SEP == <<",", " ">>
OPEN == <<"[">>
CLOSE == <<"]">>

\* map_res(take_while(is_digit), |s| s.parse()) on the result t of the tag,
\* made a pair by side
counted(r, side, at) ==
  IF ~parse_u64(r.val).ok THEN Fail(at)
  ELSE Ok(r.rest, IF side = "ahead" THEN <<parse_u64(r.val).val, ZeroU64>>
                  ELSE <<ZeroU64, parse_u64(r.val).val>>)

count_after(t, side) ==
  IF ~t.ok THEN t ELSE counted(take_while(Digits, t.rest), side, t.rest)

ahead(s) == count_after(tag(AHEAD, s), "ahead")

behind(s) == count_after(tag(BEHIND, s), "behind")

RECURSIVE list_more(_, _)
\* separated_nonempty_list(tag(", "), alt((ahead, behind))) after its first
\* element: a separator or an element that does not parse ends the list
\* before the separator
list_next(acc, i, el) ==
  IF ~el.ok THEN Ok(i, acc) ELSE list_more(Append(acc, el.val), el.rest)

list_sep(acc, i, sep) ==
  IF ~sep.ok THEN Ok(i, acc)
  ELSE list_next(acc, i, alt(ahead(sep.rest), behind(sep.rest)))

list_more(acc, i) == list_sep(acc, i, tag(LIST_SEP, i))

list_first(el) == IF ~el.ok THEN el ELSE list_more(<<el.val>>, el.rest)

separated_nonempty_list(s) == list_first(alt(ahead(s), behind(s)))

\* (a + c, b + d) on the sum so far: with overflow checks an overflowing +
\* panics, without them it wraps
add_pair(sum, pair, overflow_checks) ==
  IF sum.panic THEN sum
  ELSE IF overflow_checks /\ (overflowing_add(sum.val[1], pair[1]).overflow
                              \/ overflowing_add(sum.val[2], pair[2]).overflow)
  THEN [panic |-> TRUE]
  ELSE [panic |-> FALSE,
        val |-> <<overflowing_add(sum.val[1], pair[1]).val,
                  overflowing_add(sum.val[2], pair[2]).val>>]

RECURSIVE fold_pairs(_, _, _, _)
\* list.into_iter().fold((0,0), ..)
fold_pairs(sum, list, k, overflow_checks) ==
  IF k > Len(list) THEN sum
  ELSE fold_pairs(add_pair(sum, list[k], overflow_checks), list, k + 1, overflow_checks)

summed(r, total) == IF total.panic THEN Panicked ELSE Ok(r.rest, total.val)

ahead_behind_of(r, overflow_checks) ==
  IF ~r.ok THEN r
  ELSE summed(r, fold_pairs([panic |-> FALSE, val |-> <<ZeroU64, ZeroU64>>],
                            r.val, 1, overflow_checks))

ahead_behind(s, overflow_checks) == ahead_behind_of(separated_nonempty_list(s), overflow_checks)

\* delimited(tag("["), ahead_behind, tag("]"))
closed(r, close) == IF close.ok THEN Ok(close.rest, Some(r.val)) ELSE Fail(r.rest)

closing(r) == IF IsPanic(r) \/ ~r.ok THEN r ELSE closed(r, tag(CLOSE, r.rest))

bracketed_of(open, overflow_checks) ==
  IF ~open.ok THEN open ELSE closing(ahead_behind(open.rest, overflow_checks))

bracketed(s, overflow_checks) == bracketed_of(tag(OPEN, s), overflow_checks)

\* alt of three: a panic in a branch ends the call
alt3(a, b, c) == IF a.ok THEN a ELSE IF IsPanic(b) \/ b.ok THEN b ELSE c

tracking_state(s, overflow_checks) ==
  alt3(map(tag(GONE, s), None),
       bracketed(s, overflow_checks),
       map(tag(<<>>, s), Some(<<ZeroU64, ZeroU64>>)))

(* src/git/parse/for_each_ref.rs: the creator field                        *)
(* A time is its number of seconds after 1970-01-01 00:00:00 UTC, on limbs. *)

NAME_END == <<" ", "<">>
EMAIL_END == <<">", " ">>
I64_MAX == <<"9", "2", "2", "3", "3", "7", "2", "0", "3", "6", "8", "5", "4", "7", "7", "5", "8", "0", "7">>

\* str::parse::<i64>() of a string of decimal digits
parse_i64(s) ==
  IF s = <<>> THEN Fail(s)
  ELSE IF Len(StripZeros(s)) > Len(I64_MAX) THEN Fail(s)
  ELSE IF Len(StripZeros(s)) = Len(I64_MAX) /\ ~LexLeq(StripZeros(s), I64_MAX) THEN Fail(s)
  ELSE Ok(<<>>, u64_of(StripZeros(s)))

RECURSIVE LimbsLeq(_, _, _)
\* a <= b, from limb i down
LimbsLeq(a, b, i) ==
  IF i = 0 THEN TRUE
  ELSE IF a[i] = b[i] THEN LimbsLeq(a, b, i - 1)
  ELSE a[i] < b[i]

\* chrono: FixedOffset::east and ::west take less than a day of seconds and
\* panic on more; the offset kept is local time minus UTC
DaySecs == 24 * 60 * 60

FixedOffset(sign, offset_secs) ==
  IF offset_secs >= DaySecs THEN [panic |-> TRUE]
  ELSE [panic |-> FALSE,
        local_minus_utc |-> IF sign = "+" THEN offset_secs ELSE 0 - offset_secs]

\* chrono: the last second NaiveDateTime holds, 262143-12-31 23:59:59
MAX_DATETIME == u64_of(<<"8", "2", "1", "0", "2", "9", "8", "4", "1", "2", "7", "9", "9">>)

\* a timestamp_opt that clamps to the last NaiveDateTime
timestamp_clamped(tz, secs) ==
  Some([utc |-> IF LimbsLeq(secs, MAX_DATETIME, Len(secs)) THEN secs ELSE MAX_DATETIME,
        local_minus_utc |-> tz.local_minus_utc])

\* chrono: tz.timestamp_opt(secs, 0).earliest() is the time secs seconds
\* after the epoch in UTC, carried with the offset of tz; None past the
\* last NaiveDateTime
timestamp_opt(tz, secs) ==
  IF LimbsLeq(secs, MAX_DATETIME, Len(secs))
  THEN Some([utc |-> secs, local_minus_utc |-> tz.local_minus_utc])
  ELSE None

\* chrono: DateTime<FixedOffset> into DateTime<Utc> is the same instant
into_utc(t) == IF t.some THEN Some(t.val.utc) ELSE None

in_zone(tz, secs_epoch) ==
  IF tz.panic THEN Panicked ELSE into_utc(timestamp_opt(tz, secs_epoch))

\* a build_timestamp that moves the time by the zone offset
build_timestamp_shifted(sign, hours, minutes, secs_epoch) ==
  IF (hours * 60 + minutes) * 60 >= DaySecs THEN Panicked
  ELSE Some(Take(AddLimbs(secs_epoch,
                          <<((hours * 60 + minutes) * 60) % LimbBase,
                            ((hours * 60 + minutes) * 60) \div LimbBase, 0, 0>>,
                          0, 1),
                 Len(secs_epoch)))

build_timestamp(sign, hours, minutes, secs_epoch) ==
  in_zone(FixedOffset(sign, (hours * 60 + minutes) * 60), secs_epoch)

\* the last step of creator: ok_or(Err::Error((rest, TakeWhileMN)))
creator_built(rest, name, email, ts) ==
  IF IsPanic(ts) THEN Panicked
  ELSE IF ~ts.some THEN Fail(rest)
  ELSE Ok(rest, <<name, email, ts.val>>)

creator_minutes(m, at, name, email, secs, sign, hours) ==
  IF ~m.ok THEN m
  ELSE creator_built(m.rest, name, email,
                     build_timestamp(sign, hours, DecVal(m.val), secs))

creator_hours(h, at, name, email, secs, sign) ==
  IF ~h.ok THEN h
  ELSE creator_minutes(take_while_m_n(2, 2, Digits, h.rest), h.rest,
                       name, email, secs, sign, DecVal(h.val))

creator_sign(g, name, email, secs) ==
  IF ~g.ok THEN g
  ELSE creator_hours(take_while_m_n(2, 2, Digits, g.rest), g.rest,
                     name, email, secs, g.val[1])

creator_space(sp, name, email, secs) ==
  IF ~sp.ok THEN sp
  ELSE creator_sign(alt(tag(<<"+">>, sp.rest), tag(<<"-">>, sp.rest)), name, email, secs)

creator_secs(d, at, name, email) ==
  IF ~parse_i64(d.val).ok THEN Fail(at)
  ELSE creator_space(tag(SP, d.rest), name, email, parse_i64(d.val).val)

creator_email_end(e, name, email) ==
  IF ~e.ok THEN e ELSE creator_secs(take_while(Digits, e.rest), e.rest, name, email)

creator_email(m, name) ==
  IF ~m.ok THEN m ELSE creator_email_end(tag(EMAIL_END, m.rest), name, m.val)

creator_name_end(t, name) ==
  IF ~t.ok THEN t ELSE creator_email(take_until(EMAIL_END, t.rest), name)

creator_name(n) ==
  IF ~n.ok THEN n ELSE creator_name_end(tag(NAME_END, n.rest), n.val)

\* a creator whose name ends at the first space
creator_first_word(s) == creator_name(take_until(SP, s))

creator(s) == creator_name(take_until(NAME_END, s))

----------------------------------------------------------------------------
----------------------------------------------------------------------------
(* src/git.rs: the three providers                                         *)
(* A finished git process is [spawned, success, utf8, stdout, stderr].     *)

Sources == {"LsRemote", "GetStatus", "ForEachRef"}

Status_default == [branch |-> None, lines |-> <<>>]

provides(src) ==
  CASE src = "LsRemote" -> REMOTE
    [] src = "GetStatus" -> STATUS
    [] src = "ForEachRef" -> REFS

empty(src) ==
  CASE src = "LsRemote" -> <<>>
    [] src = "GetStatus" -> Status_default
    [] src = "ForEachRef" -> <<>>

\* out: the finished process; parsed: the parser's result on its stdout;
\* e: the source's own error
\* an exec_and_parse that decodes stdout before it looks at the exit status
exec_and_parse_decoding_first(out, parsed, e) ==
  IF ~out.spawned THEN [ok |-> FALSE, err |-> "Exec"]
  ELSE IF ~out.utf8 THEN [ok |-> FALSE, err |-> "Utf8"]
  ELSE IF ~out.success THEN [ok |-> FALSE, err |-> e, msg |-> out.stderr]
  ELSE IF IsPanic(parsed) THEN Panicked
  ELSE IF parsed.kind = "Ok" THEN [ok |-> TRUE, val |-> parsed.val]
  ELSE [ok |-> FALSE, err |-> "Parse"]

exec_and_parse(out, parsed, e) ==
  IF ~out.spawned THEN [ok |-> FALSE, err |-> "Exec"]
  ELSE IF out.success
  THEN (IF ~out.utf8 THEN [ok |-> FALSE, err |-> "Utf8"]
        ELSE IF IsPanic(parsed) THEN Panicked
        ELSE IF parsed.kind = "Ok" THEN [ok |-> TRUE, val |-> parsed.val]
        ELSE [ok |-> FALSE, err |-> "Parse"])
  ELSE [ok |-> FALSE, err |-> e, msg |-> out.stderr]

LsRemote_get(out) == exec_and_parse(out, ref_pairs(out.stdout), "LsRemote")

GetStatus_get(out) == exec_and_parse(out, parse(out.stdout), "Status")

\* the parser of the for-each-ref records is handed in as its result
ForEachRef_get(out, parsed) == exec_and_parse(out, parsed, "ForEachRef")

\* a fetch only when the requirements are exactly what the provider provides
collect_exact(rq, src) == rq = provides(src)

\* a collect that fetches whatever the requirements are
collect_always(rq, src) == TRUE

\* Provider::collect fetches when the requirements include what it provides
collect_gets(rq, src) == includes(rq, provides(src))

----------------------------------------------------------------------------
(* The texts git is taken to print, and the command lines                  *)

HEX_LEN == 40

ShaA == Rep("a", HEX_LEN)
ShaB == Rep("b", HEX_LEN)
ShaT1 == Rep("1", HEX_LEN)
ShaT2 == Rep("2", HEX_LEN)

HdrClean ==
  <<"#", " ", "b", "r", "a", "n", "c", "h", ".", "o", "i", "d", " ">> \o ShaA \o <<"\n", "#", " ", "b", "r", "a", "n", "c", "h", ".", "h", "e", "a", "d", " ", "m", "a", "i", "n", "\n", "#", " ", "b", "r", "a", "n", "c", "h", ".", "u", "p", "s", "t", "r", "e", "a", "m", " ", "o", "r", "i", "g", "i", "n", "/", "m", "a", "i", "n", "\n", "#", " ", "b", "r", "a", "n", "c", "h", ".", "a", "b", " ", "+", "0", " ", "-", "0", "\n">>
HdrAhead ==
  <<"#", " ", "b", "r", "a", "n", "c", "h", ".", "o", "i", "d", " ">> \o ShaA \o <<"\n", "#", " ", "b", "r", "a", "n", "c", "h", ".", "h", "e", "a", "d", " ", "m", "a", "i", "n", "\n", "#", " ", "b", "r", "a", "n", "c", "h", ".", "u", "p", "s", "t", "r", "e", "a", "m", " ", "o", "r", "i", "g", "i", "n", "/", "m", "a", "i", "n", "\n", "#", " ", "b", "r", "a", "n", "c", "h", ".", "a", "b", " ", "+", "2", " ", "-", "3", "\n">>
HdrBehind ==
  <<"#", " ", "b", "r", "a", "n", "c", "h", ".", "o", "i", "d", " ">> \o ShaA \o <<"\n", "#", " ", "b", "r", "a", "n", "c", "h", ".", "h", "e", "a", "d", " ", "m", "a", "i", "n", "\n", "#", " ", "b", "r", "a", "n", "c", "h", ".", "u", "p", "s", "t", "r", "e", "a", "m", " ", "o", "r", "i", "g", "i", "n", "/", "m", "a", "i", "n", "\n", "#", " ", "b", "r", "a", "n", "c", "h", ".", "a", "b", " ", "+", "0", " ", "-", "4", "\n">>
HdrNoUpstream ==
  <<"#", " ", "b", "r", "a", "n", "c", "h", ".", "o", "i", "d", " ">> \o ShaB \o <<"\n", "#", " ", "b", "r", "a", "n", "c", "h", ".", "h", "e", "a", "d", " ", "t", "o", "p", "i", "c", "\n">>
HdrDetached ==
  <<"#", " ", "b", "r", "a", "n", "c", "h", ".", "o", "i", "d", " ">> \o ShaA \o <<"\n", "#", " ", "b", "r", "a", "n", "c", "h", ".", "h", "e", "a", "d", " ", "(", "d", "e", "t", "a", "c", "h", "e", "d", ")", "\n">>
HdrInitial ==
  <<"#", " ", "b", "r", "a", "n", "c", "h", ".", "o", "i", "d", " ", "(", "i", "n", "i", "t", "i", "a", "l", ")", "\n", "#", " ", "b", "r", "a", "n", "c", "h", ".", "h", "e", "a", "d", " ", "m", "a", "i", "n", "\n">>
HdrNoHead ==
  <<"#", " ", "b", "r", "a", "n", "c", "h", ".", "o", "i", "d", " ">> \o ShaA \o <<"\n">>
HdrSwapped ==
  <<"#", " ", "b", "r", "a", "n", "c", "h", ".", "h", "e", "a", "d", " ", "m", "a", "i", "n", "\n", "#", " ", "b", "r", "a", "n", "c", "h", ".", "o", "i", "d", " ">> \o ShaA \o <<"\n">>
HdrBadAb ==
  <<"#", " ", "b", "r", "a", "n", "c", "h", ".", "o", "i", "d", " ">> \o ShaA \o <<"\n", "#", " ", "b", "r", "a", "n", "c", "h", ".", "h", "e", "a", "d", " ", "m", "a", "i", "n", "\n", "#", " ", "b", "r", "a", "n", "c", "h", ".", "a", "b", " ", "+", "1", " ", "-", "x", "\n">>
LnUntracked ==
  <<"?", " ", "n", "e", "w", ".", "t", "x", "t", "\n">>
LnIgnored ==
  <<"!", " ", "t", "m", "p", "\n">>
LnOneUnstaged ==
  <<"1", " ", ".", "M", " ", "N", ".", ".", ".", " ", "1", "0", "0", "6", "4", "4", " ", "1", "0", "0", "6", "4", "4", " ", "1", "0", "0", "6", "4", "4", " ">> \o ShaA \o <<" ">> \o ShaB \o <<" ", "f", "\n">>
LnOneStaged ==
  <<"1", " ", "A", ".", " ", "S", ".", "M", ".", " ", "1", "0", "0", "6", "4", "4", " ", "1", "0", "0", "6", "4", "4", " ", "1", "0", "0", "6", "4", "4", " ">> \o ShaA \o <<" ">> \o ShaB \o <<" ", "f", "\n">>
LnTwo ==
  <<"2", " ", "R", "M", " ", "N", ".", ".", ".", " ", "1", "0", "0", "6", "4", "4", " ", "1", "0", "0", "6", "4", "4", " ", "1", "0", "0", "6", "4", "4", " ">> \o ShaA \o <<" ">> \o ShaB \o <<" ", "R", "7", "5", " ", "n", "e", "w", "\t", "o", "l", "d", "\n">>
LnUnmerged ==
  <<"u", " ", "U", "U", " ", "N", ".", ".", ".", " ", "1", "0", "0", "6", "4", "4", " ", "1", "0", "0", "6", "4", "4", " ", "1", "0", "0", "6", "4", "4", " ", "1", "0", "0", "6", "4", "4", " ">> \o ShaA \o <<" ">> \o ShaB \o <<" ">> \o ShaA \o <<" ", "c", "o", "n", "f", "l", "i", "c", "t", "\n">>
LnUnknownTag ==
  <<"x", " ", "n", "e", "w", ".", "t", "x", "t", "\n">>
LnBadMode ==
  <<"1", " ", ".", "M", " ", "N", ".", ".", ".", " ", "1", "0", "0", "6", "4", "8", " ", "1", "0", "0", "6", "4", "4", " ", "1", "0", "0", "6", "4", "4", " ">> \o ShaA \o <<" ">> \o ShaB \o <<" ", "f", "\n">>
LnShortSha ==
  <<"1", " ", ".", "M", " ", "N", ".", ".", ".", " ", "1", "0", "0", "6", "4", "4", " ", "1", "0", "0", "6", "4", "4", " ", "1", "0", "0", "6", "4", "4", " ", "a", "a", "a", "a", "a", "a", "a", "a", "a", "a", "a", "a", "a", "a", "a", "a", "a", "a", "a", "a", "a", "a", "a", "a", "a", "a", "a", "a", "a", "a", "a", "a", "a", "a", "a", "a", "a", "a", "a", " ">> \o ShaB \o <<" ", "f", "\n">>
LnBadSub ==
  <<"1", " ", ".", "M", " ", "N", ".", ".", "M", " ", "1", "0", "0", "6", "4", "4", " ", "1", "0", "0", "6", "4", "4", " ", "1", "0", "0", "6", "4", "4", " ">> \o ShaA \o <<" ">> \o ShaB \o <<" ", "f", "\n">>
LnBadStatus ==
  <<"1", " ", ".", "z", " ", "N", ".", ".", ".", " ", "1", "0", "0", "6", "4", "4", " ", "1", "0", "0", "6", "4", "4", " ", "1", "0", "0", "6", "4", "4", " ">> \o ShaA \o <<" ">> \o ShaB \o <<" ", "f", "\n">>
LnTabInPath ==
  <<"?", " ", "a", "\t", "b", "\n">>
LnEmptyPath ==
  <<"?", " ", "\n">>
LnBadScore ==
  <<"2", " ", "R", ".", " ", "N", ".", ".", ".", " ", "1", "0", "0", "6", "4", "4", " ", "1", "0", "0", "6", "4", "4", " ", "1", "0", "0", "6", "4", "4", " ">> \o ShaA \o <<" ">> \o ShaB \o <<" ", "R", "2", "5", "6", " ", "n", "e", "w", "\t", "o", "l", "d", "\n">>
LnOnePath ==
  <<"2", " ", "R", ".", " ", "N", ".", ".", ".", " ", "1", "0", "0", "6", "4", "4", " ", "1", "0", "0", "6", "4", "4", " ", "1", "0", "0", "6", "4", "4", " ">> \o ShaA \o <<" ">> \o ShaB \o <<" ", "R", "7", "5", " ", "n", "e", "w", "\n">>
LnNoNewline ==
  <<"?", " ", "n", "e", "w", ".", "t", "x", "t">>
LnOneNoNewline ==
  <<"1", " ", ".", "M", " ", "N", ".", ".", ".", " ", "1", "0", "0", "6", "4", "4", " ", "1", "0", "0", "6", "4", "4", " ", "1", "0", "0", "6", "4", "4", " ">> \o ShaA \o <<" ">> \o ShaB \o <<" ", "f">>

MaxLines == 2
MaxRefs == 2
MaxRemotes == 2
MaxTags == 1

GoodHeaders == {HdrClean, HdrAhead, HdrBehind, HdrNoUpstream, HdrDetached, HdrInitial}
BadHeaders == {HdrNoHead, HdrSwapped, HdrBadAb}
GoodLines == {LnUntracked, LnIgnored, LnOneUnstaged, LnOneStaged, LnTwo, LnUnmerged}
BadLines == {LnUnknownTag, LnBadMode, LnShortSha, LnBadSub, LnBadStatus, LnTabInPath,
             LnEmptyPath, LnBadScore, LnOnePath}
Unterminated == {LnNoNewline, LnOneNoNewline}

SeqsUpTo(S, n) == UNION {[1..k -> S] : k \in 0..n}

RECURSIVE Concat(_)
Concat(ss) == IF ss = <<>> THEN <<>> ELSE ss[1] \o Concat(Tail(ss))

\* a status text, kept in its pieces: the header, the lines before a
\* malformed line, the malformed line, the lines after it, and a last line
\* that lacks its newline
Text(in) == in.header \o Concat(in.before) \o in.bad \o Concat(in.after) \o in.tail

ParseHeaders == {<<>>, HdrClean, HdrInitial} \cup BadHeaders
ParseLines == {LnUntracked, LnOneUnstaged, LnTwo, LnUnmerged}

StatusInputs ==
  {[header |-> h, before |-> b, bad |-> x, after |-> a, tail |-> z] :
     h \in ParseHeaders, b \in SeqsUpTo(ParseLines, MaxLines),
     x \in {<<>>} \cup BadLines, a \in {<<>>, <<LnIgnored>>},
     z \in {<<>>} \cup Unterminated}

\* the status reports the evaluators are applied to: what the parser makes
\* of the well-formed texts
GoodTexts ==
  {h \o Concat(ls) : h \in GoodHeaders \cup {<<>>}, ls \in SeqsUpTo(GoodLines, MaxLines)}

\* the headers that differ in the branch oid
OidTexts == {<<>>, HdrClean, HdrNoUpstream, HdrInitial}

\* the fields of a RefLine that the evaluators read
RefLine(name, type, referred) ==
  [object_name |-> name, object_type |-> type, referred_object |-> referred]

RefLines ==
  {RefLine(ShaT1, "Tag", Some(ShaA)), RefLine(ShaT2, "Tag", Some(ShaA)),
   RefLine(ShaT1, "Tag", Some(ShaB)), RefLine(ShaA, "Commit", None),
   RefLine(ShaT2, "Commit", Some(ShaA)), RefLine(ShaT2, "Tag", None)}

RefPath == <<"r", "e", "f", "s", "/", "x">>

RefPairs ==
  {[refname |-> n, path |-> RefPath] : n \in {ShaT1, ShaT2}}

\* a finished git process
ProcOutputs(texts) ==
  {[spawned |-> FALSE, success |-> FALSE, utf8 |-> TRUE, stdout |-> <<>>, stderr |-> <<>>],
   [spawned |-> TRUE, success |-> FALSE, utf8 |-> TRUE, stdout |-> <<>>, stderr |-> <<>>],
   [spawned |-> TRUE, success |-> FALSE, utf8 |-> FALSE, stdout |-> <<>>, stderr |-> <<>>],
   [spawned |-> TRUE, success |-> TRUE, utf8 |-> FALSE, stdout |-> <<>>, stderr |-> <<>>]}
  \cup {[spawned |-> TRUE, success |-> TRUE, utf8 |-> TRUE, stdout |-> x, stderr |-> <<>>] : x \in texts}

StatusOutputs ==
  ProcOutputs({HdrClean, HdrAhead \o LnUntracked, HdrNoUpstream \o LnOneStaged,
               HdrDetached \o LnUnmerged \o LnOneUnstaged, LnTwo, LnUnknownTag})

LsRemoteOutputs ==
  ProcOutputs({<<>>, ShaT1 \o TAB \o RefPath \o NL,
               ShaA \o TAB \o RefPath \o NL \o ShaT2 \o TAB \o RefPath \o NL,
               ShaA \o SP \o RefPath \o NL})

ForEachRefOutputs == ProcOutputs({<<>>})

ForEachRefParses ==
  {[kind |-> "Ok", val |-> refs] :
     refs \in {<<>>, <<RefLine(ShaT1, "Tag", Some(ShaA))>>,
               <<RefLine(ShaT2, "Tag", Some(ShaA)), RefLine(ShaT1, "Tag", Some(ShaA))>>}}
  \cup {[kind |-> "Trailing", rest |-> NL]}

ExampleRemotes == {<<>>, <<[refname |-> ShaT1, path |-> RefPath]>>}
ExampleStatuses == {parse(x).val : x \in {HdrClean, HdrAhead \o LnUntracked, LnTwo}}
ExampleRefs == {<<>>, <<RefLine(ShaT1, "Tag", Some(ShaA))>>}

TagLists == UNION {[1..n -> all_tags] : n \in 1..MaxTags}

Opts ==
  {[subcommand |-> FALSE, example |-> FALSE, quiet |-> q, checks |-> c] :
     q \in BOOLEAN, c \in {None} \cup {Some(x) : x \in TagLists}}
  \cup {[subcommand |-> FALSE, example |-> TRUE, quiet |-> q, checks |-> None] : q \in BOOLEAN}
  \cup {[subcommand |-> TRUE, example |-> FALSE, quiet |-> FALSE, checks |-> None]}

----------------------------------------------------------------------------
(* src/main.rs: real_main                                                  *)

\* the status source reported with the code of the remote source
with_status_repeated(src) ==
  CASE src = "LsRemote" -> 128
    [] src = "GetStatus" -> 128
    [] src = "ForEachRef" -> 130

\* map_err(&with_status(n)) of the three collect calls
with_status(src) ==
  CASE src = "LsRemote" -> 128
    [] src = "GetStatus" -> 129
    [] src = "ForEachRef" -> 130

\* the codes load_rng and the rendering can fail with
LoadRngCodes == {131, 132, 133, 134, 135}
RenderCodes == {131, 132, 133}

Call(src, via, ok) == [source |-> src, via |-> via, ok |-> ok]

\* if let (name, Some(sub_opt)) = opt.subcommand(): write-templates returns
\* Ok(0), or exits 1 when the directory or a file cannot be written
WriteTemplates ==
  /\ pc = "main"
  /\ opt.subcommand
  /\ \E n \in {0, 1} : exit' = n
  /\ pc' = "exited"
  /\ UNCHANGED <<opt, checks, reqs, calls, ls_remote, gitstatus, summary, items,
                 input, result>>

\* let mut checks = ...; let reqs = checks.required_sources();
SelectChecks ==
  /\ pc = "main"
  /\ ~opt.subcommand
  /\ checks' = IF opt.checks.some THEN tagged_checks(opt.checks.val) ELSE all_checks
  /\ reqs' = required_sources(checks')
  /\ pc' = IF opt.example THEN "example" ELSE "collect_ls_remote"
  /\ UNCHANGED <<opt, calls, ls_remote, gitstatus, summary, items, exit, input, result>>

\* --example: the summary is made of generated data and all the checks
Example ==
  /\ pc = "example"
  /\ \/ /\ \E n \in LoadRngCodes : exit' = n
        /\ pc' = "exited"
        /\ UNCHANGED summary
     \/ /\ \E remote \in ExampleRemotes, st \in ExampleStatuses, refs \in ExampleRefs :
             summary' = Some(Summary_new(remote, st, refs, all_checks))
        /\ pc' = "summary"
        /\ UNCHANGED exit
  /\ UNCHANGED <<opt, checks, reqs, calls, ls_remote, gitstatus, items, input, result>>

\* LsRemote.collect(reqs).map_err(&with_status(128))?
CollectLsRemote ==
  /\ pc = "collect_ls_remote"
  /\ IF collect_gets(reqs, "LsRemote")
     THEN \E out \in LsRemoteOutputs :
            LET r == LsRemote_get(out)
            IN /\ calls' = Append(calls, Call("LsRemote", "get", r.ok))
               /\ IF r.ok
                  THEN ls_remote' = Some(r.val) /\ pc' = "collect_status" /\ UNCHANGED exit
                  ELSE exit' = with_status("LsRemote") /\ pc' = "exited" /\ UNCHANGED ls_remote
     ELSE /\ calls' = Append(calls, Call("LsRemote", "empty", TRUE))
          /\ ls_remote' = Some(empty("LsRemote"))
          /\ pc' = "collect_status"
          /\ UNCHANGED exit
  /\ UNCHANGED <<opt, checks, reqs, gitstatus, summary, items, input, result>>

\* GetStatus.collect(reqs).map_err(&with_status(129))?
CollectStatus ==
  /\ pc = "collect_status"
  /\ IF collect_gets(reqs, "GetStatus")
     THEN \E out \in StatusOutputs :
            LET r == GetStatus_get(out)
            IN /\ calls' = Append(calls, Call("GetStatus", "get", r.ok))
               /\ IF r.ok
                  THEN gitstatus' = Some(r.val) /\ pc' = "collect_for_each_ref" /\ UNCHANGED exit
                  ELSE exit' = with_status("GetStatus") /\ pc' = "exited" /\ UNCHANGED gitstatus
     ELSE /\ calls' = Append(calls, Call("GetStatus", "empty", TRUE))
          /\ gitstatus' = Some(empty("GetStatus"))
          /\ pc' = "collect_for_each_ref"
          /\ UNCHANGED exit
  /\ UNCHANGED <<opt, checks, reqs, ls_remote, summary, items, input, result>>

\* ForEachRef.collect(reqs).map_err(&with_status(130))?, then Summary::new
CollectForEachRef ==
  /\ pc = "collect_for_each_ref"
  /\ IF collect_gets(reqs, "ForEachRef")
     THEN \E out \in ForEachRefOutputs, parsed \in ForEachRefParses :
            LET r == ForEachRef_get(out, parsed)
            IN /\ calls' = Append(calls, Call("ForEachRef", "get", r.ok))
               /\ IF r.ok
                  THEN /\ summary' = Some(Summary_new(ls_remote.val, gitstatus.val, r.val, checks))
                       /\ pc' = "summary"
                       /\ UNCHANGED exit
                  ELSE exit' = with_status("ForEachRef") /\ pc' = "exited" /\ UNCHANGED summary
     ELSE /\ calls' = Append(calls, Call("ForEachRef", "empty", TRUE))
          /\ summary' = Some(Summary_new(ls_remote.val, gitstatus.val, empty("ForEachRef"), checks))
          /\ pc' = "summary"
          /\ UNCHANGED exit
  /\ UNCHANGED <<opt, checks, reqs, ls_remote, gitstatus, items, input, result>>

\* unless --quiet the items are rendered, which can fail; then
\* std::process::exit(summary.exit_status())
Report ==
  /\ pc = "summary"
  /\ items' = IF opt.quiet THEN <<>> ELSE Summary_items(summary.val)
  /\ \/ exit' = exit_status(summary.val)
     \/ ~opt.quiet /\ \E n \in RenderCodes : exit' = n
  /\ pc' = "exited"
  /\ UNCHANGED <<opt, checks, reqs, calls, ls_remote, gitstatus, summary, input, result>>

Init ==
  /\ pc = "main"
  /\ opt \in Opts
  /\ checks = <<>>
  /\ reqs = EMPTY
  /\ calls = <<>>
  /\ ls_remote = None
  /\ gitstatus = None
  /\ summary = None
  /\ items = <<>>
  /\ exit = -1
  /\ input = <<>>
  /\ result = None

Next ==
  \/ WriteTemplates
  \/ SelectChecks
  \/ Example
  \/ CollectLsRemote
  \/ CollectStatus
  \/ CollectForEachRef
  \/ Report

Spec == Init /\ [][Next]_vars

----------------------------------------------------------------------------
(* The status parser applied to one text                                   *)

Idle == [subcommand |-> FALSE, example |-> FALSE, quiet |-> TRUE, checks |-> None]

ParseInit ==
  /\ pc = "parse"
  /\ input \in StatusInputs
  /\ result = None
  /\ opt = Idle
  /\ checks = <<>>
  /\ reqs = EMPTY
  /\ calls = <<>>
  /\ ls_remote = None
  /\ gitstatus = None
  /\ summary = None
  /\ items = <<>>
  /\ exit = -1

ParseStatus ==
  /\ pc = "parse"
  /\ result' = Some(parse(Text(input)))
  /\ pc' = "parsed"
  /\ UNCHANGED <<opt, checks, reqs, calls, ls_remote, gitstatus, summary, items, exit, input>>

ParseNext == ParseStatus

SpecParse == ParseInit /\ [][ParseNext]_vars

----------------------------------------------------------------------------
(* One pure function applied to one input                                  *)

\* the state before the call
Given(inputs, at) ==
  /\ pc = at
  /\ input \in inputs
  /\ result = None
  /\ opt = Idle
  /\ checks = <<>>
  /\ reqs = EMPTY
  /\ calls = <<>>
  /\ ls_remote = None
  /\ gitstatus = None
  /\ summary = None
  /\ items = <<>>
  /\ exit = -1

\* the call returns v
Returns(v) ==
  /\ result' = Some(v)
  /\ pc' = "returned"
  /\ UNCHANGED <<opt, checks, reqs, calls, ls_remote, gitstatus, summary, items, exit, input>>

(* Check::all_checks and Check::tagged_checks on a tag list                 *)

MaxSel == 2

\* a tag that no check carries
UnknownTag == "nope"

SelectInputs ==
  {[kind |-> "all"]}
  \cup {[kind |-> "tagged", tags |-> x] : x \in SeqsUpTo(all_tags \cup {UnknownTag}, MaxSel)}

SelectInit == Given(SelectInputs, "select")

SelectAll ==
  /\ pc = "select"
  /\ input.kind = "all"
  /\ Returns(all_checks)

SelectTagged ==
  /\ pc = "select"
  /\ input.kind = "tagged"
  /\ Returns(tagged_checks(input.tags))

SelectNext == SelectAll \/ SelectTagged

SpecSelect == SelectInit /\ [][SelectNext]_vars

(* datasource::Group: union and includes on three groups                   *)

SourceKinds == {STATUS, REFS, REMOTE}

\* every group that the constants and union make
Groups == {union(union(x, y), z) : x, y, z \in SourceKinds \cup {EMPTY}}

GroupInputs == {[kind |-> "group", a |-> a, b |-> b, c |-> c] : a, b, c \in Groups}

GroupInit == Given(GroupInputs, "group")

GroupOps ==
  /\ pc = "group"
  /\ input.kind = "group"
  /\ Returns([ab |-> union(input.a, input.b),
              ba |-> union(input.b, input.a),
              ab_c |-> union(union(input.a, input.b), input.c),
              a_bc |-> union(input.a, union(input.b, input.c)),
              aa |-> union(input.a, input.a),
              a_empty |-> union(input.a, EMPTY),
              empty_a |-> union(EMPTY, input.a),
              in_a |-> [x \in SourceKinds |-> includes(input.a, x)],
              in_b |-> [x \in SourceKinds |-> includes(input.b, x)],
              in_ab |-> [x \in SourceKinds |-> includes(union(input.a, input.b), x)],
              a_includes_b |-> includes(input.a, input.b),
              a_includes_empty |-> includes(input.a, EMPTY),
              empty_includes_a |-> includes(EMPTY, input.a)])

GroupNext == GroupOps

SpecGroup == GroupInit /\ [][GroupNext]_vars

(* The object names of a parsed status text and of parsed remote pairs     *)

HeadMain == <<"#", " ", "b", "r", "a", "n", "c", "h", ".", "h", "e", "a", "d", " ", "m", "a", "i", "n", "\n">>

OidLine(x) == BRANCH_OID \o x \o NL

\* headers whose branch.oid is neither (initial) nor forty hex digits
HdrShortOid == OidLine(<<"0", "a", "0", "3", "b", "a", "3">>) \o HeadMain
HdrWordOid == OidLine(<<"n", "o", "t", "-", "a", "-", "s", "h", "a">>) \o HeadMain
HdrLongOid == OidLine(ShaA \o <<"a">>) \o HeadMain
HdrEmptyOid == OidLine(<<>>) \o HeadMain
HdrInitialMore == OidLine(INITIAL \o <<"x">>) \o HeadMain

OddOidHeaders == {HdrShortOid, HdrWordOid, HdrLongOid, HdrEmptyOid, HdrInitialMore}

OidHeaders == {HdrClean, HdrInitial} \cup OddOidHeaders

OidLines == {LnOneUnstaged, LnTwo, LnUnmerged, LnShortSha}

PairLine(name, sep) == name \o sep \o RefPath \o NL

PairLines ==
  {PairLine(ShaT1, TAB), PairLine(ShaA, TAB), PairLine(Take(ShaA, 7), TAB),
   PairLine(ShaA, SP), PairLine(<<"H", "E", "A", "D">>, TAB)}

OidInputs ==
  {[kind |-> "status", header |-> h, lines |-> ls] :
     h \in OidHeaders, ls \in SeqsUpTo(OidLines, MaxLines)}
  \cup {[kind |-> "ls_remote", lines |-> ls] : ls \in SeqsUpTo(PairLines, MaxRemotes)}

OidInit == Given(OidInputs, "names")

OidStatus ==
  /\ pc = "names"
  /\ input.kind = "status"
  /\ Returns(parse(input.header \o Concat(input.lines)))

OidLsRemote ==
  /\ pc = "names"
  /\ input.kind = "ls_remote"
  /\ Returns(ref_pairs(Concat(input.lines)))

OidNext == OidStatus \/ OidLsRemote

SpecOid == OidInit /\ [][OidNext]_vars

(* The mode parser on one text                                             *)

MaxModeLen == 7

ModeChars == {"0", "7", "8"}

ModeInputs ==
  {[kind |-> "mode", text |-> x] :
     x \in SeqsUpTo(ModeChars, MaxModeLen)
           \cup {<<"1", "0", "0", "6", "4", "4">>, <<"1", "0", "0", "6", "4", "4", " ", "1", "0", "0", "6", "4", "4">>, <<"8", "0", "0", "0", "0">>, <<"1", "0", "0", "6", "4", "x">>, <<"+", "0", "0", "0", "0", "0">>}}

ModeInit == Given(ModeInputs, "mode")

ModeParse ==
  /\ pc = "mode"
  /\ input.kind = "mode"
  /\ Returns(mode(input.text))

ModeNext == ModeParse

SpecMode == ModeInit /\ [][ModeNext]_vars

(* The tracking annotation parser on one text, for a build                 *)

MaxClauses == 2

\* a clause as printed, with the side and the value it stands for
Clause(side, digits, value) == [side |-> side, digits |-> digits, value |-> value]

Small(n) == <<n, 0, 0, 0>>

Clauses ==
  {Clause("ahead", <<"7">>, Small(7)), Clause("behind", <<"9">>, Small(9)),
   Clause("ahead", <<"1", "3">>, Small(13)), Clause("behind", <<"1", "5">>, Small(15)),
   Clause("ahead", <<"6", "5", "5", "3", "6">>, <<0, 1, 0, 0>>),
   Clause("ahead", U64_MAX, <<LimbBase - 1, LimbBase - 1, LimbBase - 1, LimbBase - 1>>)}

ClauseText(c) == (IF c.side = "ahead" THEN AHEAD ELSE BEHIND) \o c.digits

RECURSIVE Joined(_)
Joined(cs) ==
  IF Len(cs) = 1 THEN ClauseText(cs[1])
  ELSE ClauseText(cs[1]) \o LIST_SEP \o Joined(Tail(cs))

\* texts that are none of the three forms
OtherTracking ==
  {<<"[", "a", "h", "e", "a", "d", " ", "x", "]">>, <<"[", "a", "h", "e", "a", "d", " ", "7">>, <<"[", "a", "h", "e", "a", "d", " ", "7", ",", "b", "e", "h", "i", "n", "d", " ", "9", "]">>, <<"[", "]">>,
   <<"[", "a", "h", "e", "a", "d", " ", "1", "8", "4", "4", "6", "7", "4", "4", "0", "7", "3", "7", "0", "9", "5", "5", "1", "6", "1", "6", "]">>, <<"[", "g", "o", "n", "e", "]", " ", "x">>, <<"[", "a", "h", "e", "a", "d", " ", "]">>, <<"a", "h", "e", "a", "d", " ", "7">>}

TrackingInputs ==
  {[kind |-> "tracking", form |-> f.form, clauses |-> f.clauses, text |-> f.text,
    overflow_checks |-> oc] :
     f \in {[form |-> "empty", clauses |-> <<>>, text |-> <<>>],
            [form |-> "gone", clauses |-> <<>>, text |-> GONE]}
           \cup {[form |-> "list", clauses |-> cs, text |-> OPEN \o Joined(cs) \o CLOSE] :
                   cs \in SeqsUpTo(Clauses, MaxClauses) \ {<<>>}}
           \cup {[form |-> "other", clauses |-> <<>>, text |-> x] : x \in OtherTracking},
     oc \in BOOLEAN}

TrackingInit == Given(TrackingInputs, "tracking")

TrackingState ==
  /\ pc = "tracking"
  /\ input.kind = "tracking"
  /\ Returns(tracking_state(input.text, input.overflow_checks))

TrackingNext == TrackingState

SpecTracking == TrackingInit /\ [][TrackingNext]_vars

(* The creator parser on one creator field                                 *)

\* epoch seconds as printed, with the value they stand for
Epoch(digits, value) == [digits |-> digits, value |-> value]

Epochs ==
  {Epoch(<<"0">>, <<0, 0, 0, 0>>),
   Epoch(<<"1", "5", "7", "0", "6", "4", "4", "7", "9", "7">>, <<9021, 23966, 0, 0>>),
   Epoch(<<"8", "2", "1", "0", "2", "9", "8", "4", "1", "2", "7", "9", "9">>, <<40703, 39915, 1911, 0>>),
   Epoch(<<"8", "2", "1", "0", "2", "9", "8", "4", "1", "2", "8", "0", "0">>, <<40704, 39915, 1911, 0>>),
   Epoch(<<"9", "2", "2", "3", "3", "7", "2", "0", "3", "6", "8", "5", "4", "7", "7", "5", "8", "0", "8">>, <<0, 0, 0, 32768>>),
   Epoch(<<>>, <<0, 0, 0, 0>>)}

Zones ==
  {[hh |-> <<"0", "0">>, mm |-> <<"0", "0">>, secs |-> 0],
   [hh |-> <<"0", "7">>, mm |-> <<"0", "0">>, secs |-> 25200],
   [hh |-> <<"0", "5">>, mm |-> <<"3", "0">>, secs |-> 19800],
   [hh |-> <<"2", "3">>, mm |-> <<"5", "9">>, secs |-> 86340],
   [hh |-> <<"2", "4">>, mm |-> <<"0", "0">>, secs |-> 86400],
   [hh |-> <<"7">>, mm |-> <<"0", "0">>, secs |-> 25200]}

Signs == {"+", "-", "~"}

CreatorNames == {<<"A", " ", "U", " ", "T", "h", "o", "r">>, <<>>}

CreatorEmails == {<<"a", "@", "b", ".", "c">>, <<>>}

CreatorText(name, email, e, sign, z) ==
  name \o NAME_END \o email \o EMAIL_END \o e.digits \o SP \o <<sign>> \o z.hh \o z.mm

CreatorInputs ==
  {[kind |-> "creator", name |-> n, email |-> m, epoch |-> e, sign |-> g, zone |-> z,
    text |-> CreatorText(n, m, e, g, z)] :
     n \in CreatorNames, m \in CreatorEmails, e \in Epochs, g \in Signs, z \in Zones}

CreatorInit == Given(CreatorInputs, "creator")

CreatorParse ==
  /\ pc = "creator"
  /\ input.kind = "creator"
  /\ Returns(creator(input.text))

CreatorNext == CreatorParse

SpecCreator == CreatorInit /\ [][CreatorNext]_vars

(* submodule_status on one text                                            *)

MaxSubLen == 4

SubChars == {"N", "S", "C", "M", "U", ".", "x"}

SubInputs == {[kind |-> "sub", text |-> x] : x \in SeqsUpTo(SubChars, MaxSubLen)}

SubInit == Given(SubInputs, "sub")

SubmoduleStatus ==
  /\ pc = "sub"
  /\ input.kind = "sub"
  /\ Returns(submodule_status(input.text))

SubNext == SubmoduleStatus

SpecSub == SubInit /\ [][SubNext]_vars

(* The remote-ref parser on a text of lines                                *)

MaxPairLines == 2

\* a line as printed: name, separator, path and line end, and whether it is
\* forty hex digits, a tab, a path of one character or more without tab or
\* newline, and a newline
PairForm(name, sep, path, end, good) ==
  [name |-> name, sep |-> sep, path |-> path, end |-> end, good |-> good]

HexMixed == <<"0", "1", "2", "3", "4", "5", "6", "7", "8", "9", "a", "b", "c", "d", "e", "f", "A", "B", "C", "D", "E", "F", "0", "1", "2", "3", "4", "5", "6", "7", "8", "9", "a", "b", "c", "d", "e", "f", "A", "B">>

PairForms ==
  {PairForm(ShaA, TAB, <<"r", "e", "f", "s", "/", "h", "e", "a", "d", "s", "/", "m", "a", "i", "n">>, NL, TRUE),
   PairForm(HexMixed, TAB, <<"r", "e", "f", "s", "/", "t", "a", "g", "s", "/", "v", " ", "1", ".", "0", " ", "'", "x", "'">>, NL, TRUE),
   PairForm(ShaT1, TAB, <<"H">>, NL, TRUE),
   PairForm(Take(ShaA, HEX_LEN - 1), TAB, <<"r", "e", "f", "s", "/", "h", "e", "a", "d", "s", "/", "m", "a", "i", "n">>, NL, FALSE),
   PairForm(ShaA \o <<"a">>, TAB, <<"r", "e", "f", "s", "/", "h", "e", "a", "d", "s", "/", "m", "a", "i", "n">>, NL, FALSE),
   PairForm(Take(ShaA, HEX_LEN - 1) \o <<"g">>, TAB, <<"r", "e", "f", "s", "/", "h", "e", "a", "d", "s", "/", "m", "a", "i", "n">>, NL, FALSE),
   PairForm(ShaA, SP, <<"r", "e", "f", "s", "/", "h", "e", "a", "d", "s", "/", "m", "a", "i", "n">>, NL, FALSE),
   PairForm(ShaA, TAB, <<>>, NL, FALSE),
   PairForm(ShaA, TAB, <<"a", "\t", "b">>, NL, FALSE),
   PairForm(ShaA, TAB, <<"r", "e", "f", "s", "/", "h", "e", "a", "d", "s", "/", "m", "a", "i", "n">>, <<>>, FALSE),
   PairForm(<<>>, <<>>, <<>>, NL, FALSE)}

PairText(l) == l.name \o l.sep \o l.path \o l.end

RECURSIVE PairsText(_)
PairsText(ls) == IF ls = <<>> THEN <<>> ELSE PairText(Head(ls)) \o PairsText(Tail(ls))

\* a line without its newline is the last line of a text
Unended(ls) == \E i \in 1..(Len(ls) - 1) : ls[i].end = <<>>

PairsInputs ==
  {[kind |-> "pairs", lines |-> ls, text |-> PairsText(ls)] :
     ls \in {x \in SeqsUpTo(PairForms, MaxPairLines) : ~Unended(x)}}

PairsInit == Given(PairsInputs, "pairs")

ParsePairs ==
  /\ pc = "pairs"
  /\ input.kind = "pairs"
  /\ Returns(ref_pairs(input.text))

PairsNext == ParsePairs

SpecPairs == PairsInit /\ [][PairsNext]_vars

(* The status parser on header lines in any order                          *)

MaxHeaderLines == 4

\* a header line as printed, the place it has in the header, and the value
\* it stands for
HeaderLine(slot, text, value) == [slot |-> slot, text |-> text, value |-> value]

HeaderLines ==
  {HeaderLine("oid", BRANCH_OID \o ShaA \o NL, [oid |-> "Commit", name |-> ShaA]),
   HeaderLine("oid", BRANCH_OID \o INITIAL \o NL, [oid |-> "Initial"]),
   HeaderLine("head", BRANCH_HEAD \o <<"m", "a", "i", "n">> \o NL, [head |-> "Branch", name |-> <<"m", "a", "i", "n">>]),
   HeaderLine("head", BRANCH_HEAD \o DETACHED \o NL, [head |-> "Detached"]),
   HeaderLine("upstream", BRANCH_UPSTREAM \o <<"o", "r", "i", "g", "i", "n", "/", "m", "a", "i", "n">> \o NL, <<"o", "r", "i", "g", "i", "n", "/", "m", "a", "i", "n">>),
   HeaderLine("ab", BRANCH_AB \o <<"+", "2", " ", "-", "3">> \o NL, [ahead |-> 2, behind |-> 3])}

RECURSIVE HeaderText(_)
HeaderText(hs) == IF hs = <<>> THEN <<>> ELSE Head(hs).text \o HeaderText(Tail(hs))

HeaderInputs ==
  {[kind |-> "header", header |-> hs, lines |-> ls,
    text |-> HeaderText(hs) \o Concat(ls)] :
     hs \in SeqsUpTo(HeaderLines, MaxHeaderLines),
     ls \in {<<>>, <<LnUntracked>>}}

HeaderInit == Given(HeaderInputs, "header")

ParseHeader ==
  /\ pc = "header"
  /\ input.kind = "header"
  /\ Returns(parse(input.text))

HeaderNext == ParseHeader

SpecHeader == HeaderInit /\ [][HeaderNext]_vars

(* The status parser on one line of each kind with a path                  *)

\* the lines of the five kinds up to their path
PreUntracked == <<"?", " ">>
PreIgnored == <<"!", " ">>
PreOne == Take(LnOneUnstaged, Len(LnOneUnstaged) - Len(<<"f", "\n">>))
PreTwo == Take(LnTwo, Len(LnTwo) - Len(<<"n", "e", "w", "\t", "o", "l", "d", "\n">>))
PreUnmerged == Take(LnUnmerged, Len(LnUnmerged) - Len(<<"c", "o", "n", "f", "l", "i", "c", "t", "\n">>))

PathPrefix(variant) ==
  CASE variant = "Untracked" -> PreUntracked
    [] variant = "Ignored" -> PreIgnored
    [] variant = "One" -> PreOne
    [] variant = "Two" -> PreTwo
    [] variant = "Unmerged" -> PreUnmerged

\* paths as git may print them, the empty path, and a path with a tab
Paths ==
  {<<"f">>, <<"a", " ", "b">>, <<"\"", "c", "a", "f", "\\", "3", "0", "3", "\\", "2", "5", "1", " ", "\\", "\"", "x", "\\", "\"", ".", "t", "x", "t", "\"">>, <<".", "/", "a", "/", ".", ".", "/", "b", "/", "/">>, <<" ", "l", "e", "a", "d">>, <<"t", "r", "a", "i", "l", " ">>,
   <<>>, <<"a", "\t", "b">>}

PathText(variant, path, orig) ==
  PathPrefix(variant) \o path \o (IF variant = "Two" THEN TAB \o orig ELSE <<>>) \o NL

PathInputs ==
  {[kind |-> "path", variant |-> v, path |-> p, orig |-> o, more |-> m,
    text |-> PathText(v, p, o) \o m] :
     v \in {"Untracked", "Ignored", "One", "Two", "Unmerged"}, p \in Paths,
     o \in Paths, m \in {<<>>, LnIgnored}}

PathInit == Given({in \in PathInputs : in.variant = "Two" \/ in.orig = <<>>}, "path")

ParsePath ==
  /\ pc = "path"
  /\ input.kind = "path"
  /\ Returns(parse(input.text))

PathNext == ParsePath

SpecPath == PathInit /\ [][PathNext]_vars

(* The selection, its required sources and what collect does with them      *)

\* real_main from the checks to the three collect calls, on any tag list
CollectFor(cs) ==
  [checks |-> cs,
   reqs |-> required_sources(cs),
   gets |-> [src \in Sources |-> collect_gets(required_sources(cs), src)]]

PlanInit == Given(SelectInputs, "plan")

PlanAll ==
  /\ pc = "plan"
  /\ input.kind = "all"
  /\ Returns(CollectFor(all_checks))

PlanTagged ==
  /\ pc = "plan"
  /\ input.kind = "tagged"
  /\ Returns(CollectFor(tagged_checks(input.tags)))

PlanNext == PlanAll \/ PlanTagged

SpecPlan == PlanInit /\ [][PlanNext]_vars

(* The status parser and the remote-ref parser on texts they reject         *)

RejectInputs ==
  {[kind |-> "lines", in |-> x, text |-> Text(x)] :
     x \in {y \in StatusInputs : Len(y.before) <= 1}}
  \cup HeaderInputs
  \cup PairsInputs

RejectInit == Given(RejectInputs, "reject")

RejectStatus ==
  /\ pc = "reject"
  /\ input.kind \in {"lines", "header"}
  /\ Returns(parse(input.text))

RejectPairs ==
  /\ pc = "reject"
  /\ input.kind = "pairs"
  /\ Returns(ref_pairs(input.text))

RejectNext == RejectStatus \/ RejectPairs

SpecReject == RejectInit /\ [][RejectNext]_vars

(* exec_and_parse on one finished process                                  *)

NotARepo == <<"f", "a", "t", "a", "l", ":", " ", "n", "o", "t", " ", "a", " ", "g", "i", "t", " ", "r", "e", "p", "o", "s", "i", "t", "o", "r", "y">>

\* the process with something on stderr as well
WithStderr(outs) == outs \cup {[o EXCEPT !.stderr = NotARepo] : o \in outs}

\* what a parser handed to exec_and_parse may do on stdout
ParserResults ==
  {[kind |-> "Ok", val |-> <<>>], [kind |-> "Trailing", rest |-> NL], Panicked}

\* the inputs of each provider apart: their values are of different shapes
ExecLsRemoteInputs ==
  {[kind |-> "exec", via |-> "get", source |-> "LsRemote", out |-> o,
    parsed |-> ref_pairs(o.stdout)] : o \in WithStderr(LsRemoteOutputs)}

ExecStatusInputs ==
  {[kind |-> "exec", via |-> "get", source |-> "GetStatus", out |-> o,
    parsed |-> parse(o.stdout)] : o \in WithStderr(StatusOutputs)}

ExecForEachRefInputs ==
  {[kind |-> "exec", via |-> "get", source |-> "ForEachRef", out |-> o,
    parsed |-> p] : o \in WithStderr(ForEachRefOutputs), p \in ForEachRefParses}

ExecDirectInputs ==
  {[kind |-> "exec", via |-> "direct", source |-> src, out |-> o, parsed |-> p] :
     src \in Sources, o \in WithStderr(ProcOutputs({<<>>})), p \in ParserResults}

ExecInit ==
  \/ Given(ExecLsRemoteInputs, "exec")
  \/ Given(ExecStatusInputs, "exec")
  \/ Given(ExecForEachRefInputs, "exec")
  \/ Given(ExecDirectInputs, "exec")

\* the error constructor each provider hands to exec_and_parse
ErrorOf(src) ==
  CASE src = "LsRemote" -> "LsRemote"
    [] src = "GetStatus" -> "Status"
    [] src = "ForEachRef" -> "ForEachRef"

ExecGet ==
  /\ pc = "exec"
  /\ input.via = "get"
  /\ Returns(CASE input.source = "LsRemote" -> LsRemote_get(input.out)
               [] input.source = "GetStatus" -> GetStatus_get(input.out)
               [] input.source = "ForEachRef" -> ForEachRef_get(input.out, input.parsed))

ExecDirect ==
  /\ pc = "exec"
  /\ input.via = "direct"
  /\ Returns(exec_and_parse(input.out, input.parsed, ErrorOf(input.source)))

ExecNext == ExecGet \/ ExecDirect

SpecExec == ExecInit /\ [][ExecNext]_vars

(* CheckResult::from on a usize, a u64 and a bool, built for a target      *)

LimbValues == {0, 1, LimbBase - 1}

U64s == [1..Limbs(U64Bits) -> LimbValues]

ConvInputs ==
  {[kind |-> "u64", n |-> w, bits |-> b] : w \in U64s, b \in UsizeBits}
  \cup {[kind |-> "usize", n |-> as_usize(w, b), bits |-> b] : w \in U64s, b \in UsizeBits}
  \cup {[kind |-> "bool", x |-> b] : b \in BOOLEAN}

ConvInit == Given(ConvInputs, "convert")

ConvUsize ==
  /\ pc = "convert"
  /\ input.kind = "usize"
  /\ Returns(from_usize_limbs(input.n))

ConvU64 ==
  /\ pc = "convert"
  /\ input.kind = "u64"
  /\ Returns(from_u64_limbs(input.n, input.bits))

ConvBool ==
  /\ pc = "convert"
  /\ input.kind = "bool"
  /\ Returns(from_bool(input.x))

ConvNext == ConvUsize \/ ConvU64 \/ ConvBool

SpecConv == ConvInit /\ [][ConvNext]_vars

----------------------------------------------------------------------------
(* The evaluators applied to one Summary of all the checks                 *)

EvalSummaries ==
  {Summary_new(<<>>, parse(x).val, <<>>, all_checks) : x \in GoodTexts}
  \cup {Summary_new(remote, parse(x).val, refs, all_checks) :
          x \in OidTexts, refs \in SeqsUpTo(RefLines, MaxRefs),
          remote \in SeqsUpTo(RefPairs, MaxRemotes)}

EvalInit ==
  /\ pc = "eval"
  /\ summary \in {Some(s) : s \in EvalSummaries}
  /\ items = <<>>
  /\ exit = -1
  /\ opt = Idle
  /\ checks = all_checks
  /\ reqs = required_sources(all_checks)
  /\ calls = <<>>
  /\ ls_remote = None
  /\ gitstatus = None
  /\ input = <<>>
  /\ result = None

EvalItems ==
  /\ pc = "eval"
  /\ items' = Summary_items(summary.val)
  /\ pc' = "items"
  /\ UNCHANGED <<opt, checks, reqs, calls, ls_remote, gitstatus, summary, exit, input, result>>

EvalExitStatus ==
  /\ pc = "items"
  /\ exit' = exit_status(summary.val)
  /\ pc' = "exited"
  /\ UNCHANGED <<opt, checks, reqs, calls, ls_remote, gitstatus, summary, items, input, result>>

EvalNext == EvalItems \/ EvalExitStatus

SpecEval == EvalInit /\ [][EvalNext]_vars

----------------------------------------------------------------------------
(* Properties                                                              *)

\* bit g of n
Bit(n, g) == (n \div Shl(1, g)) % 2

\* the bit of a source in a requirement group
SourceBit(src) ==
  CASE src = "GetStatus" -> 0
    [] src = "ForEachRef" -> 1
    [] src = "LsRemote" -> 2

\* some selected check declares the source among its required data
Needed(src) ==
  \E i \in DOMAIN checks : Bit(ALL_CHECKS[checks[i]].required_data, SourceBit(src)) = 1

Fetched(src) == \E i \in DOMAIN calls : calls[i].source = src /\ calls[i].via = "get"

\* the run got as far as a Summary built from the providers
Collected == summary.some /\ ~opt.example

\* the run ended with the exit status of the summary
Reported == pc = "exited" /\ summary.some /\ exit >= 0 /\ exit < 128

\* the checks of the summary that did not pass
Failing == {i \in DOMAIN summary.val.checks :
              Eval(ALL_CHECKS[summary.val.checks[i]], summary.val).r # "Passed"}

GroupOf(i) == ALL_CHECKS[summary.val.checks[i]].status_group

\* C1: the exit status is the OR of 1 << status_group over the selected
\* checks that did not pass: bit g is set iff a selected check of group g
\* failed, and the status is 0 iff every selected check passed
C1_ExitStatusIsOrOfFailingGroups ==
  Reported =>
    /\ \A g \in 0..30 : Bit(exit, g) = 1 <=> \E i \in Failing : GroupOf(i) = g
    /\ exit = 0 <=> Failing = {}

C1_Witness ==
  /\ Reported
  /\ \E i, j \in Failing : i # j /\ GroupOf(i) = GroupOf(j)
  /\ \E i, j \in Failing : GroupOf(i) # GroupOf(j)
  /\ Failing # DOMAIN summary.val.checks

SummaryField(src) ==
  CASE src = "GetStatus" -> summary.val.status
    [] src = "ForEachRef" -> summary.val.for_each_ref
    [] src = "LsRemote" -> summary.val.ls_remote

EmptyValue(src) ==
  IF src = "GetStatus" THEN [branch |-> [some |-> FALSE], lines |-> <<>>] ELSE <<>>

\* C2: a source is fetched iff some selected check requires it; a source
\* that is not fetched is replaced by its empty value, and every selected
\* check is evaluated all the same
C2_FetchedIffRequired ==
  /\ \A i \in DOMAIN calls : calls[i].via = "get" <=> Needed(calls[i].source)
  /\ Collected =>
       /\ {calls[i].source : i \in DOMAIN calls} = Sources
       /\ \A src \in Sources : Fetched(src) <=> Needed(src)
       /\ \A src \in Sources : ~Fetched(src) => SummaryField(src) = EmptyValue(src)
       /\ summary.val.checks = checks
  /\ (Collected /\ pc = "exited" /\ ~opt.quiet) =>
       /\ Len(items) = Len(checks)
       /\ \A i \in DOMAIN items : items[i].check = checks[i]

C2_Witness ==
  /\ Collected
  /\ pc = "exited"
  /\ items # <<>>
  /\ Fetched("GetStatus")
  /\ Fetched("LsRemote")
  /\ ~Fetched("ForEachRef")
  /\ summary.val.for_each_ref = <<>>

CollectOrder == <<"LsRemote", "GetStatus", "ForEachRef">>

\* C3: a failing source ends the run at once, before a Summary exists and
\* before any item is made, with 128 for the remote source, 129 for status
\* and 130 for refs; the sources are collected in the order remote, status,
\* refs, each at most once
C3_FailedSourceAborts ==
  /\ Len(calls) <= 3
  /\ \A i \in DOMAIN calls : calls[i].source = CollectOrder[i]
  /\ \A i \in DOMAIN calls :
       ~calls[i].ok =>
         /\ i = Len(calls)
         /\ pc = "exited"
         /\ summary = None
         /\ items = <<>>
         /\ exit = CASE calls[i].source = "LsRemote" -> 128
                     [] calls[i].source = "GetStatus" -> 129
                     [] calls[i].source = "ForEachRef" -> 130
  /\ exit \in {128, 129, 130} => calls # <<>> /\ ~calls[Len(calls)].ok

C3_Witness ==
  /\ exit = 129
  /\ Len(calls) = 2
  /\ calls[1].via = "get"
  /\ calls[1].ok
  /\ ~calls[2].ok

\* the lines of a status input, and whether the input is well formed
InputLines(in) == in.before \o in.after
WellFormed(in) ==
  /\ in.header \in GoodHeaders \cup {<<>>}
  /\ in.bad = <<>>
  /\ in.tail = <<>>

IsSuffix(x, s) == Len(x) <= Len(s) /\ x = SubSeq(s, Len(s) - Len(x) + 1, Len(s))

\* C4: the status parser returns a Status only when header and lines take
\* up the whole input; a line with an unknown tag or a malformed field makes
\* the result an error that carries no Status
C4_ParseAllOrNothing ==
  pc = "parsed" =>
    /\ result.val.kind = "Ok" =>
         /\ WellFormed(input)
         /\ Len(result.val.val.lines) = Len(InputLines(input))
         /\ result.val.val.branch.some <=> input.header # <<>>
    /\ ~WellFormed(input) =>
         /\ result.val.kind # "Ok"
         /\ "val" \notin DOMAIN result.val
    /\ result.val.kind = "Trailing" =>
         /\ result.val.rest # <<>>
         /\ IsSuffix(result.val.rest, Text(input))

C4_Witness ==
  /\ pc = "parsed"
  /\ input.header # <<>>
  /\ Len(input.before) = 2
  /\ input.bad # <<>>
  /\ input.after # <<>>
  /\ result.val.kind = "Trailing"

\* the selection holds the check that is evaluated by unpushed_tag
SelectsUnpushedTag ==
  \E i \in DOMAIN summary.val.checks :
    ALL_CHECKS[summary.val.checks[i]].eval = "unpushed_tag"

\* C5: whenever the check "tag is pushed" is selected, the ref records and
\* the remote pairs are both fetched before it is evaluated
C5_UnpushedTagFetchesRefsAndRemote ==
  (Collected /\ SelectsUnpushedTag) => Fetched("ForEachRef") /\ Fetched("LsRemote")

\* every check of the summary has its item
Evaluated == pc \in {"items", "exited"} /\ summary.some /\ Len(items) = Len(summary.val.checks)

\* the result of the check that the named evaluator computes
ResultOf(name) ==
  items[CHOOSE i \in DOMAIN items : ALL_CHECKS[items[i].check].eval = name].result

OnCommit == summary.val.status.branch.some /\ summary.val.status.branch.val.oid.oid = "Commit"

HeadCommit == summary.val.status.branch.val.oid.name

Refs == summary.val.for_each_ref

Remote == summary.val.ls_remote

PointsAtHead(i) == Refs[i].referred_object.some /\ Refs[i].referred_object.val = HeadCommit

\* a Tag record whose peeled target is the commit of the branch
TagOfHead(i) == Refs[i].object_type = "Tag" /\ PointsAtHead(i)

FirstTagOfHead(i) == TagOfHead(i) /\ \A j \in 1..(i - 1) : ~TagOfHead(j)

Pushed(i) == \E j \in DOMAIN Remote : Remote[j].refname = Refs[i].object_name

\* C6: unpushed_tag is Passed iff the branch is on a commit, a Tag record
\* peels to that commit, and the name of the first such record is a refname
\* of the remote; otherwise it is Failed, never Bad, and it is Failed when
\* the ref records or the remote pairs are empty
C6_UnpushedTagFollowsFirstTag ==
  Evaluated =>
    /\ ResultOf("unpushed_tag") \in {Passed, Failed}
    /\ ResultOf("unpushed_tag") = Passed <=>
         (OnCommit /\ \E i \in DOMAIN Refs : FirstTagOfHead(i) /\ Pushed(i))
    /\ (Refs = <<>> \/ Remote = <<>>) => ResultOf("unpushed_tag") = Failed

C6_Witness ==
  /\ Evaluated
  /\ OnCommit
  /\ \E i, j \in DOMAIN Refs :
       /\ FirstTagOfHead(i)
       /\ ~Pushed(i)
       /\ i < j
       /\ TagOfHead(j)
       /\ Pushed(j)
  /\ ResultOf("unpushed_tag") = Failed

\* C7: untagged_commit is Passed iff the branch is on a commit and some
\* record of type Tag has a peeled target equal to it; otherwise it is
\* Failed, also when the records that point at the commit are not tags
C7_UntaggedCommitNeedsTagRecord ==
  Evaluated =>
    /\ ResultOf("untagged_commit") \in {Passed, Failed}
    /\ ResultOf("untagged_commit") = Passed <=>
         (OnCommit /\ \E i \in DOMAIN Refs : TagOfHead(i))

C7_Witness ==
  /\ Evaluated
  /\ OnCommit
  /\ \E i \in DOMAIN Refs : PointsAtHead(i) /\ Refs[i].object_type # "Tag"
  /\ \E i \in DOMAIN Refs : Refs[i].object_type = "Tag" /\ ~Refs[i].referred_object.some
  /\ ResultOf("untagged_commit") = Failed

CountsKnown == summary.val.status.branch.some /\ summary.val.status.branch.val.commits.some

Counts == summary.val.status.branch.val.commits.val

\* the result the two tracking checks owe to a count
FailSafe(res, n) ==
  /\ (CountsKnown /\ n = 0) => res = Passed
  /\ (CountsKnown /\ n > 0) => res = [r |-> "Bad", n |-> n]
  /\ ~CountsKnown => res = [r |-> "Bad", n |-> 1]
  /\ res = Passed <=> (CountsKnown /\ n = 0)

Lines == summary.val.status.lines

\* Passed for no offending line, Bad(k) for k of them
Counted(res, k) == res = IF k = 0 THEN Passed ELSE [r |-> "Bad", n |-> k]

\* C9: untracked_files is Passed without an Untracked line and Bad(k) with
\* k of them; lines of the other variants are not counted
C9_UntrackedFilesCountsUntracked ==
  Evaluated =>
    Counted(ResultOf("untracked_files"),
            Cardinality({i \in DOMAIN Lines : Lines[i].variant = "Untracked"}))

C9_Witness ==
  /\ Evaluated
  /\ \E i, j \in DOMAIN Lines : Lines[i].variant = "Untracked" /\ Lines[j].variant = "Ignored"
  /\ ResultOf("untracked_files") = [r |-> "Bad", n |-> 1]

Tracked(i) == Lines[i].variant \in {"One", "Two", "Unmerged"}

\* C10: modified_files counts the One, Two and Unmerged lines whose unstaged
\* half is not Unmodified, uncommited_changes those whose staged half is not;
\* a line with both halves changed counts once for each
C10_ChangedHalvesCounted ==
  Evaluated =>
    /\ Counted(ResultOf("modified_files"),
               Cardinality({i \in DOMAIN Lines :
                              Tracked(i) /\ Lines[i].status.unstaged # "Unmodified"}))
    /\ Counted(ResultOf("uncommited_changes"),
               Cardinality({i \in DOMAIN Lines :
                              Tracked(i) /\ Lines[i].status.staged # "Unmodified"}))

C10_Witness ==
  /\ Evaluated
  /\ \E i, j \in DOMAIN Lines :
       /\ Lines[i].variant = "Unmerged"
       /\ Lines[i].status.staged # "Unmodified"
       /\ Lines[i].status.unstaged # "Unmodified"
       /\ Lines[j].variant \in {"Untracked", "Ignored"}
  /\ ResultOf("modified_files") = [r |-> "Bad", n |-> 1]
  /\ ResultOf("uncommited_changes") = [r |-> "Bad", n |-> 1]

HasBranch == summary.val.status.branch.some

TheBranch == summary.val.status.branch.val

\* C11: detached_head is Passed iff there is a branch whose head is not
\* Detached, untracked_branch is Passed iff there is a branch with an
\* upstream; both are Failed otherwise, also without a branch, and never Bad
C11_BranchChecksAreBoolean ==
  Evaluated =>
    /\ ResultOf("detached_head") \in {Passed, Failed}
    /\ ResultOf("untracked_branch") \in {Passed, Failed}
    /\ ResultOf("detached_head") = Passed <=>
         (HasBranch /\ TheBranch.head.head # "Detached")
    /\ ResultOf("untracked_branch") = Passed <=>
         (HasBranch /\ TheBranch.upstream.some)
    /\ ~HasBranch =>
         (ResultOf("detached_head") = Failed /\ ResultOf("untracked_branch") = Failed)

C11_Witness ==
  /\ Evaluated
  /\ ~HasBranch
  /\ Lines # <<>>
  /\ ResultOf("detached_head") = Failed
  /\ ResultOf("untracked_branch") = Failed

C11_WitnessDetached ==
  /\ Evaluated
  /\ HasBranch
  /\ TheBranch.head.head = "Detached"
  /\ ResultOf("detached_head") = Failed

\* the status of a branch that follows its upstream with nothing to report
CleanStatus ==
  /\ HasBranch
  /\ TheBranch.head.head = "Branch"
  /\ TheBranch.upstream.some
  /\ TheBranch.commits = Some([ahead |-> 0, behind |-> 0])
  /\ Lines = <<>>

StatusOnlyChecks ==
  {"untracked_files", "modified_files", "uncommited_changes", "detached_head",
   "untracked_branch", "remote_changes", "unpushed_commit"}

\* C12: on a status with a branch on a named head, an upstream, counts
\* (0, 0) and no lines, the seven checks that read only the status are all
\* Passed, whatever the ref records and the remote pairs hold
C12_CleanStatusPassesStatusChecks ==
  (Evaluated /\ CleanStatus) =>
    \A name \in StatusOnlyChecks : ResultOf(name) = Passed

C12_Witness ==
  /\ Evaluated
  /\ CleanStatus
  /\ Len(Refs) = MaxRefs
  /\ Len(Remote) = MaxRemotes
  /\ \A name \in StatusOnlyChecks : ResultOf(name) = Passed
  /\ ResultOf("unpushed_tag") = Failed

\* the run rendered the items of its summary
Rendered == pc = "exited" /\ summary.some /\ ~opt.quiet

\* C13: items holds one Item per selected check, in the order of the
\* selection, which is the order of the registry; each carries the result of
\* its check's evaluator on the summary and passed = (result is Passed), and
\* the exit status is the one that follows from the items that were made
C13_ItemsFollowSelection ==
  Rendered =>
    /\ Len(items) = Len(summary.val.checks)
    /\ \A i \in DOMAIN items :
         /\ items[i].check = summary.val.checks[i]
         /\ items[i].result = Eval(ALL_CHECKS[summary.val.checks[i]], summary.val)
         /\ items[i].passed <=> items[i].result = Passed
    /\ \A i, j \in DOMAIN items : i < j => items[i].check < items[j].check
    /\ (exit >= 0 /\ exit < 128) =>
         \A g \in 0..30 :
           Bit(exit, g) = 1 <=>
             \E i \in DOMAIN items :
               ~items[i].passed /\ ALL_CHECKS[items[i].check].status_group = g

C13_Witness ==
  /\ Rendered
  /\ ~opt.example
  /\ Len(items) > 1
  /\ Len(items) < Len(ALL_CHECKS)
  /\ \E i, j \in DOMAIN items : items[i].passed /\ ~items[j].passed
  /\ exit > 0
  /\ exit < 128

Converted == pc = "returned" /\ input.kind \in {"usize", "u64", "bool"}

\* Passed for the count 0 and Bad of the same count otherwise
SameCount(res, n) == res = IF IsZero(n) THEN Passed ELSE [r |-> "Bad", n |-> n]

\* C14: a count, usize or u64, converts to Passed iff it is 0 and to Bad of
\* the same count otherwise; true converts to Passed and false to Failed
C14_ConversionKeepsCount ==
  Converted =>
    /\ input.kind \in {"usize", "u64"} => SameCount(result.val, input.n)
    /\ input.kind = "bool" => result.val = IF input.x THEN Passed ELSE Failed

\* what holds of the conversions on every target: the usize and the bool
\* conversion are as stated, and so is the u64 conversion where usize has
\* 64 bits or the count has no bit above the 32nd
C14_ConversionWithinUsize ==
  Converted =>
    /\ input.kind = "usize" => SameCount(result.val, input.n)
    /\ input.kind = "bool" => result.val = IF input.x THEN Passed ELSE Failed
    /\ (input.kind = "u64" /\ (input.bits = U64Bits \/ input.n = as_usize(input.n, input.bits))) =>
         SameCount(result.val, input.n)

\* a u64 count that is a multiple of 2^32 passes on a 32-bit target
C14_TruncatedToPassed ==
  /\ Converted
  /\ input.kind = "u64"
  /\ ~IsZero(input.n)
  /\ result.val = Passed

Selected == pc = "returned" /\ input.kind \in {"all", "tagged"}

\* the tags of the k-th check of the registry, as a set
TagsOf(k) == {ALL_CHECKS[k].tags[c] : c \in DOMAIN ALL_CHECKS[k].tags}

\* C15: tagged_checks(T) lists, in the order of the registry and each once,
\* exactly the checks that carry at least one tag of T; all_checks lists the
\* nine checks in the order of the registry
C15_TaggedChecksIsFilteredRegistry ==
  Selected =>
    /\ \A i, j \in DOMAIN result.val : i < j => result.val[i] < result.val[j]
    /\ input.kind = "tagged" =>
         {result.val[i] : i \in DOMAIN result.val} =
           {k \in DOMAIN ALL_CHECKS :
              TagsOf(k) \cap {input.tags[i] : i \in DOMAIN input.tags} # {}}
    /\ input.kind = "all" =>
         /\ Len(result.val) = 9
         /\ Len(ALL_CHECKS) = 9
         /\ \A i \in DOMAIN result.val : result.val[i] = i

C15_Witness ==
  /\ Selected
  /\ input.kind = "tagged"
  /\ Len(input.tags) = 2
  /\ input.tags[1] # input.tags[2]
  /\ \E i \in DOMAIN result.val :
       {input.tags[1], input.tags[2]} \subseteq TagsOf(result.val[i])
  /\ \E i \in DOMAIN result.val : input.tags[1] \notin TagsOf(result.val[i])
  /\ Len(result.val) < Len(ALL_CHECKS)

Grouped == pc = "returned" /\ input.kind = "group"

\* C16: a union includes a source iff one of its two groups does; union is
\* commutative, associative and idempotent and has EMPTY as identity; the
\* union of Status and Remote includes Status and Remote and not Refs
C16_UnionIsSetUnion ==
  Grouped =>
    /\ \A x \in {1, 2, 4} : result.val.in_ab[x] <=> (result.val.in_a[x] \/ result.val.in_b[x])
    /\ \A x \in {1, 2, 4} : result.val.in_a[x] <=> (input.a \div x) % 2 = 1
    /\ result.val.ab = result.val.ba
    /\ result.val.ab_c = result.val.a_bc
    /\ result.val.aa = input.a
    /\ result.val.a_empty = input.a
    /\ result.val.empty_a = input.a
    /\ (input.a = 1 /\ input.b = 4) =>
         (result.val.in_ab[4] /\ result.val.in_ab[1] /\ ~result.val.in_ab[2])

C16_Witness ==
  /\ Grouped
  /\ input.a = STATUS
  /\ input.b = REMOTE
  /\ input.c = REFS
  /\ result.val.in_ab[REMOTE]
  /\ result.val.in_ab[STATUS]
  /\ ~result.val.in_ab[REFS]
  /\ result.val.ab_c # result.val.ab

Named == pc = "returned" /\ input.kind \in {"status", "ls_remote"} /\ result.val.kind = "Ok"

\* forty hexadecimal characters
IsObjectName(x) ==
  /\ Len(x) = 40
  /\ \A i \in DOMAIN x :
       x[i] \in {"0", "1", "2", "3", "4", "5", "6", "7", "8", "9",
                 "a", "b", "c", "d", "e", "f", "A", "B", "C", "D", "E", "F"}

\* the object names of a status line
LineNames(line) ==
  CASE line.variant \in {"One", "Two"} -> {line.head_obj, line.index_obj}
    [] line.variant = "Unmerged" -> {line.stage1_obj, line.stage2_obj, line.stage3_obj}
    [] OTHER -> {}

\* the object names of the lines of a parsed status, and of parsed pairs
ParsedLineNames ==
  IF input.kind = "status"
  THEN UNION {LineNames(result.val.val.lines[i]) : i \in DOMAIN result.val.val.lines}
  ELSE {result.val.val[i].refname : i \in DOMAIN result.val.val}

\* a parsed status whose branch is on a commit
ParsedCommit ==
  /\ input.kind = "status"
  /\ result.val.val.branch.some
  /\ result.val.val.branch.val.oid.oid = "Commit"

\* C17: every ObjectName of a parsed result, in the status lines, in the
\* remote pairs and in the branch oid Commit(..), is forty hexadecimal
\* characters, and a branch.oid that is neither (initial) nor forty
\* hexadecimal characters makes the status parse fail
C17_ObjectNamesAreSha ==
  /\ Named =>
       /\ \A x \in ParsedLineNames : IsObjectName(x)
       /\ ParsedCommit => IsObjectName(result.val.val.branch.val.oid.name)
  /\ (pc = "returned" /\ input.kind = "status" /\ input.header \in OddOidHeaders) =>
       result.val.kind # "Ok"

\* what holds: the names of the status lines and of the remote pairs are
\* forty hexadecimal characters, and a line or pair with another name makes
\* the parse fail
C17_LineAndPairNamesAreSha ==
  Named => \A x \in ParsedLineNames : IsObjectName(x)

\* a status is returned whose branch oid is Commit of a text that is no
\* object name
C17_OddOidParsed ==
  /\ Named
  /\ ParsedCommit
  /\ ~IsObjectName(result.val.val.branch.val.oid.name)
  /\ ParsedLineNames # {}

ModeParsed == pc = "returned" /\ input.kind = "mode"

OctalValue ==
  [c \in {"0", "1", "2", "3", "4", "5", "6", "7"} |->
     CASE c = "0" -> 0 [] c = "1" -> 1 [] c = "2" -> 2 [] c = "3" -> 3
       [] c = "4" -> 4 [] c = "5" -> 5 [] c = "6" -> 6 [] c = "7" -> 7]

SixOctal(s) == Len(s) >= 6 /\ \A i \in 1..6 : s[i] \in DOMAIN OctalValue

\* C18: mode succeeds iff the first six characters are octal digits, yields
\* the six digits in order as six values and leaves the rest; a shorter
\* input or one with another character among the first six fails
C18_ModeIsSixOctalDigits ==
  ModeParsed =>
    /\ result.val.ok <=> SixOctal(input.text)
    /\ result.val.ok =>
         /\ result.val.val = [i \in 1..6 |-> OctalValue[input.text[i]]]
         /\ result.val.rest = SubSeq(input.text, 7, Len(input.text))

C18_Witness ==
  /\ ModeParsed
  /\ input.text = <<"1", "0", "0", "6", "4", "4", " ", "1", "0", "0", "6", "4", "4">>
  /\ result.val.ok
  /\ result.val.val = <<1, 0, 0, 6, 4, 4>>
  /\ Len(result.val.rest) = 7

C18_WitnessRejected ==
  /\ ModeParsed
  /\ input.text = <<"8", "0", "0", "0", "0">>
  /\ ~result.val.ok


Tracked19 == pc = "returned" /\ input.kind = "tracking"

RECURSIVE ExactSum(_, _, _)
\* the sum of the values of the clauses of one side, in one limb more than
\* a u64 has
ExactSum(cs, side, k) ==
  IF k > Len(cs) THEN ZeroU64 \o <<0>>
  ELSE IF cs[k].side = side
  THEN Take(AddLimbs(ExactSum(cs, side, k + 1), cs[k].value \o <<0>>, 0, 1), Len(ZeroU64) + 1)
  ELSE ExactSum(cs, side, k + 1)

\* the whole text was read and gave these two counts
Gives(res, a, b) ==
  /\ ~IsPanic(res)
  /\ res.ok
  /\ res.rest = <<>>
  /\ res.val.some
  /\ res.val.val[1] \o <<0>> = a
  /\ res.val.val[2] \o <<0>> = b

\* C19: "" gives (0, 0), "[gone]" gives the gone value, and a bracketed list
\* of ahead N and behind N clauses joined by ", " gives the sum of the ahead
\* values and the sum of the behind values, whatever the order of the clauses
C19_TrackingIsSumOfClauses ==
  Tracked19 =>
    /\ input.form = "empty" => Gives(result.val, ZeroU64 \o <<0>>, ZeroU64 \o <<0>>)
    /\ input.form = "gone" =>
         (result.val.ok /\ result.val.rest = <<>> /\ ~result.val.val.some)
    /\ input.form = "list" =>
         Gives(result.val, ExactSum(input.clauses, "ahead", 1),
               ExactSum(input.clauses, "behind", 1))

\* the sum of one side is more than a u64 holds
Overflows(cs) ==
  \E side \in {"ahead", "behind"} : ExactSum(cs, side, 1)[Len(ZeroU64) + 1] # 0

\* what holds: the three forms give the values stated as long as neither
\* sum is more than a u64 holds
C19_TrackingIsSumWithinU64 ==
  Tracked19 =>
    /\ input.form = "empty" => Gives(result.val, ZeroU64 \o <<0>>, ZeroU64 \o <<0>>)
    /\ input.form = "gone" =>
         (result.val.ok /\ result.val.rest = <<>> /\ ~result.val.val.some)
    /\ (input.form = "list" /\ ~Overflows(input.clauses)) =>
         Gives(result.val, ExactSum(input.clauses, "ahead", 1),
               ExactSum(input.clauses, "behind", 1))

\* "[behind 15, ahead 13]" gives (13, 15)
C19_ClauseOrderIgnored ==
  /\ Tracked19
  /\ input.form = "list"
  /\ Len(input.clauses) = 2
  /\ input.clauses[1].side = "behind"
  /\ input.clauses[2].side = "ahead"
  /\ Gives(result.val, <<13, 0, 0, 0, 0>>, <<15, 0, 0, 0, 0>>)

\* u64::MAX ahead and 7 more ahead wrap to 6 where + is not checked
C19_SumWrapped ==
  /\ Tracked19
  /\ input.form = "list"
  /\ Overflows(input.clauses)
  /\ ~input.overflow_checks
  /\ Gives(result.val, <<6, 0, 0, 0, 0>>, <<0, 0, 0, 0, 0>>)

\* and panic where it is
C19_SumPanicked ==
  /\ Tracked19
  /\ input.form = "list"
  /\ input.overflow_checks
  /\ IsPanic(result.val)


Created == pc = "returned" /\ input.kind = "creator"

\* the creator field was read whole and gave a time
CreatedAt == Created /\ ~IsPanic(result.val) /\ result.val.ok

Instant == result.val.val[3]

OffsetLimbs(secs) == <<secs % LimbBase, secs \div LimbBase, 0, 0>>

\* a and b are off seconds apart
Apart(a, b, off) ==
  \/ AddLimbs(a, OffsetLimbs(off), 0, 1) = b \o <<0>>
  \/ AddLimbs(b, OffsetLimbs(off), 0, 1) = a \o <<0>>

WellFormedCreator ==
  /\ input.epoch.digits # <<>>
  /\ LimbsLeq(input.epoch.value, <<40703, 39915, 1911, 0>>, 4)
  /\ input.sign \in {"+", "-"}
  /\ Len(input.zone.hh) = 2
  /\ input.zone.secs < DaySecs

C20_ZonePanics ==
  /\ Created
  /\ IsPanic(result.val)
  /\ input.zone.secs = DaySecs


\* the three values creator returned
CreatorName == result.val.val[1]
CreatorEmail == result.val.val[2]

EpochOutOfRange ==
  \/ input.epoch.digits = <<>>
  \/ ~LimbsLeq(input.epoch.value, <<40703, 39915, 1911, 0>>, 4)

ParseFailure == ~IsPanic(result.val) /\ ~result.val.ok

C22_WitnessI64 ==
  /\ Created
  /\ input.epoch.value = <<0, 0, 0, 32768>>
  /\ ParseFailure


\* C23 as stated: creator returns a value or a parse failure for every
\* field, also for a zone of 24 hours or more, and never panics
C23_CreatorNeverPanics == Created => ~IsPanic(result.val)

\* what holds: creator panics for no zone below 24 hours
C23_CreatorTotalBelowADay ==
  (Created /\ input.zone.secs < DaySecs) => ~IsPanic(result.val)

\* "A U Thor <a@b.c> 0 +2400" panics
C23_ZoneOfADayPanics ==
  /\ Created
  /\ input.epoch.digits = <<"0">>
  /\ input.sign = "+"
  /\ input.zone.secs = DaySecs
  /\ IsPanic(result.val)

\* what holds: the third arm of the match in submodule_status is never taken
C23_SubmoduleStatusNeverPanics ==
  (pc = "returned" /\ input.kind = "sub") => ~IsPanic(result.val)

\* "S.M." is a submodule with a changed tracked file
C23_SubmoduleRead ==
  /\ pc = "returned"
  /\ input.kind = "sub"
  /\ input.text = <<"S", ".", "M", ".">>
  /\ result.val.ok
  /\ result.val.val = [sub |-> "Is", c |-> FALSE, m |-> TRUE, u |-> FALSE]


PairsParsed == pc = "returned" /\ input.kind = "pairs"

\* C24: the remote-ref parser accepts a text iff every line of it is forty
\* hex digits, a tab, a non-empty path without tab or newline, and a
\* newline; it then returns one pair per line in the order of the lines,
\* with the forty digits as refname and the text after the tab as path
C24_RefPairsIsLineByLine ==
  PairsParsed =>
    /\ result.val.kind = "Ok" <=> \A i \in DOMAIN input.lines : input.lines[i].good
    /\ result.val.kind = "Ok" =>
         result.val.val = [i \in DOMAIN input.lines |->
                             [refname |-> input.lines[i].name, path |-> input.lines[i].path]]

\* two lines give two pairs in their order, the path with its spaces and
\* quotes as printed
C24_Witness ==
  /\ PairsParsed
  /\ result.val.kind = "Ok"
  /\ Len(result.val.val) = 2
  /\ result.val.val[1].refname = HexMixed
  /\ result.val.val[1].path = <<"r", "e", "f", "s", "/", "t", "a", "g", "s", "/", "v", " ", "1", ".", "0", " ", "'", "x", "'">>
  /\ result.val.val[2].refname = ShaA

\* a line without its newline after a good line makes the parse fail
C24_WitnessRejected ==
  /\ PairsParsed
  /\ Len(input.lines) = 2
  /\ input.lines[1].good
  /\ input.lines[2].end = <<>>
  /\ result.val.kind # "Ok"

\* the empty text gives no pairs
C24_WitnessEmpty ==
  /\ PairsParsed
  /\ input.text = <<>>
  /\ result.val.kind = "Ok"
  /\ result.val.val = <<>>


HeaderParsed == pc = "returned" /\ input.kind = "header"

Slots == [i \in DOMAIN input.header |-> input.header[i].slot]

\* oid, head, then upstream if any, then ab if any
Ordered(slots) ==
  slots \in {<<"oid", "head">>, <<"oid", "head", "upstream">>, <<"oid", "head", "ab">>,
             <<"oid", "head", "upstream", "ab">>}

\* the value of the line of a slot, None when the header has no such line
SlotValue(slot) ==
  IF \E i \in DOMAIN input.header : input.header[i].slot = slot
  THEN Some(input.header[CHOOSE i \in DOMAIN input.header : input.header[i].slot = slot].value)
  ELSE None

ParsedBranch == result.val.val.branch

\* C25: the status parser accepts no header, or the lines oid, head, then
\* upstream if present, then ab if present, in this order; a missing
\* upstream or ab is None, no header is branch = None, and a header without
\* oid or head, or in another order, makes the parse fail
C25_HeaderIsOptionalAndOrdered ==
  HeaderParsed =>
    /\ result.val.kind = "Ok" <=> (input.header = <<>> \/ Ordered(Slots))
    /\ (result.val.kind = "Ok" /\ input.header = <<>>) => ~ParsedBranch.some
    /\ (result.val.kind = "Ok" /\ input.header # <<>>) =>
         /\ ParsedBranch.some
         /\ ParsedBranch.val.oid = input.header[1].value
         /\ ParsedBranch.val.head = input.header[2].value
         /\ ParsedBranch.val.upstream = SlotValue("upstream")
         /\ ParsedBranch.val.commits = SlotValue("ab")
    /\ result.val.kind = "Ok" => Len(result.val.val.lines) = Len(input.lines)

\* oid, head and ab without upstream: upstream is None and ab is read
C25_Witness ==
  /\ HeaderParsed
  /\ Slots = <<"oid", "head", "ab">>
  /\ input.lines # <<>>
  /\ result.val.kind = "Ok"
  /\ ~ParsedBranch.val.upstream.some
  /\ ParsedBranch.val.commits = Some([ahead |-> 2, behind |-> 3])

\* ab before upstream fails
C25_WitnessOrder ==
  /\ HeaderParsed
  /\ Slots = <<"oid", "head", "ab", "upstream">>
  /\ result.val.kind # "Ok"

\* a header without its oid line fails
C25_WitnessNoOid ==
  /\ HeaderParsed
  /\ Slots = <<"head", "upstream">>
  /\ result.val.kind # "Ok"


PathParsed == pc = "returned" /\ input.kind = "path"

\* one character or more, none of them a tab or a newline
IsPath(p) == p # <<>> /\ \A i \in DOMAIN p : p[i] \notin {"\t", "\n"}

FirstLine == result.val.val.lines[1]

\* C26: the path of a One, Unmerged, Untracked or Ignored line is the text
\* from the last separator to the newline, and of a Two line path is the text
\* before the tab and orig_path the text after it, character for character;
\* an empty path and a tab in the path of a single-path line make the line
\* fail
C26_PathsAreVerbatim ==
  PathParsed =>
    /\ result.val.kind = "Ok" <=>
         (IsPath(input.path) /\ (input.variant = "Two" => IsPath(input.orig)))
    /\ result.val.kind = "Ok" =>
         /\ FirstLine.variant = input.variant
         /\ FirstLine.path = input.path
         /\ input.variant = "Two" => FirstLine.orig_path = input.orig
         /\ Len(result.val.val.lines) = IF input.more = <<>> THEN 1 ELSE 2

\* a Two line keeps the quoted path before the tab and the path with a
\* space after it
C26_Witness ==
  /\ PathParsed
  /\ input.variant = "Two"
  /\ result.val.kind = "Ok"
  /\ Len(FirstLine.path) > 10
  /\ FirstLine.path[1] = "\""
  /\ FirstLine.orig_path = <<"a", " ", "b">>

\* a tab in the path of a One line makes the line fail
C26_WitnessTab ==
  /\ PathParsed
  /\ input.variant = "One"
  /\ input.path = <<"a", "\t", "b">>
  /\ result.val.kind # "Ok"

\* an empty path in an Untracked line makes the line fail
C26_WitnessEmpty ==
  /\ PathParsed
  /\ input.variant = "Untracked"
  /\ input.path = <<>>
  /\ result.val.kind # "Ok"


\* the group has the source kind x, one of 1, 2 and 4
HasKind(g, x) == (g \div x) % 2 = 1

\* C27: g.includes(h) is true iff g and h share a source kind; it is true
\* for an h that g holds only in part, and g.includes(EMPTY) is false for
\* every g, EMPTY too
C27_IncludesIsIntersection ==
  Grouped =>
    /\ result.val.a_includes_b <=>
         \E x \in {1, 2, 4} : HasKind(input.a, x) /\ HasKind(input.b, x)
    /\ ~result.val.a_includes_empty
    /\ ~result.val.empty_includes_a
    /\ (input.a = 1 /\ input.b = 3) => result.val.a_includes_b

\* Status includes the group of Status and Refs, which it does not contain
C27_Witness ==
  /\ Grouped
  /\ input.a = STATUS
  /\ input.b = union(STATUS, REFS)
  /\ result.val.a_includes_b
  /\ ~result.val.in_a[REFS]

\* EMPTY does not include EMPTY
C27_WitnessEmpty ==
  /\ Grouped
  /\ input.a = EMPTY
  /\ input.b = EMPTY
  /\ ~result.val.a_includes_b


Planned == pc = "returned" /\ input.kind \in {"all", "tagged"} /\ "gets" \in DOMAIN result.val

\* C28: every check of the registry requires the status source, so that a
\* selection of one check or more fetches the status and does not get the
\* default Status in its place, and the empty selection fetches no source
C28_StatusRequiredByEveryCheck ==
  /\ \A i \in DOMAIN ALL_CHECKS : HasKind(ALL_CHECKS[i].required_data, 1)
  /\ Planned =>
       /\ result.val.checks # <<>> => result.val.gets["GetStatus"]
       /\ result.val.checks = <<>> => \A src \in Sources : ~result.val.gets[src]
       /\ result.val.checks = <<>> => result.val.reqs = EMPTY

\* the one check with the tag merge fetches status and remote, not the refs
C28_Witness ==
  /\ Planned
  /\ Len(result.val.checks) = 1
  /\ input.kind = "tagged"
  /\ result.val.gets["GetStatus"]
  /\ result.val.gets["LsRemote"]
  /\ ~result.val.gets["ForEachRef"]

\* a tag that no check carries selects nothing and fetches nothing
C28_WitnessEmpty ==
  /\ Planned
  /\ input.kind = "tagged"
  /\ input.tags # <<>>
  /\ result.val.checks = <<>>
  /\ \A src \in Sources : ~result.val.gets[src]

\* in a run of real_main, whose tags are tags of the registry, a Summary made
\* by the providers has a fetched status
C28_RunFetchesStatus == Collected => (checks # <<>> /\ Fetched("GetStatus"))


Settled == pc = "returned" /\ input.kind \in {"lines", "header", "pairs"}

\* the malformed last line of HdrBadAb
BadAbLine == <<"#", " ", "b", "r", "a", "n", "c", "h", ".", "a", "b", " ", "+", "1", " ", "-", "x", "\n">>

\* the lines of a text in pieces, from its malformed line on
FromBadLine(in) == IF in.bad # <<>> THEN in.bad \o Concat(in.after) \o in.tail ELSE in.tail

\* how many lines of a header the branch parser takes: none unless it starts
\* with oid and head, then upstream if it is next, then ab if it is next
UpstreamNext(hs) == IF Len(hs) >= 3 /\ hs[3].slot = "upstream" THEN 1 ELSE 0
AbNext(hs, k) == IF Len(hs) > k /\ hs[k + 1].slot = "ab" THEN 1 ELSE 0
TakenByBranch(hs) ==
  IF Len(hs) >= 2 /\ hs[1].slot = "oid" /\ hs[2].slot = "head"
  THEN 2 + UpstreamNext(hs) + AbNext(hs, 2 + UpstreamNext(hs))
  ELSE 0

\* the first line of the pairs that is off the form, one past the end when
\* there is none
FirstBadPair(ls) ==
  IF \E i \in DOMAIN ls : ~ls[i].good
  THEN CHOOSE i \in DOMAIN ls : ~ls[i].good /\ \A j \in 1..(i - 1) : ls[j].good
  ELSE Len(ls) + 1

\* the text from the start of the first line that no parser takes: a header
\* that the branch parser rejects is left whole, a header line after the
\* lines it takes is the first such line
Unparsed ==
  CASE input.kind = "lines" ->
         (IF input.in.header \in {HdrNoHead, HdrSwapped} THEN input.text
          ELSE IF input.in.header = HdrBadAb
          THEN BadAbLine \o Concat(input.in.before) \o input.in.bad
               \o Concat(input.in.after) \o input.in.tail
          ELSE FromBadLine(input.in))
    [] input.kind = "header" ->
         (IF TakenByBranch(input.header) < Len(input.header)
          THEN HeaderText(SubSeq(input.header, TakenByBranch(input.header) + 1,
                                 Len(input.header))) \o Concat(input.lines)
          ELSE <<>>)
    [] input.kind = "pairs" ->
         PairsText(SubSeq(input.lines, FirstBadPair(input.lines), Len(input.lines)))

\* a header is there and is not oid, head, upstream if any, ab if any
MalformedHeader ==
  \/ input.kind = "lines" /\ input.in.header \in BadHeaders
  \/ input.kind = "header" /\ input.header # <<>> /\ ~Ordered(Slots)

\* C29 as stated: a rejected text gives Trailing(r), never Failed, with r the
\* text from the start of the first line that could not be parsed, and the
\* whole text when a header is there and is malformed; a last line without
\* its newline is such a line, and the empty text is accepted
C29_TrailingWholeOnMalformedHeader ==
  Settled =>
    /\ result.val.kind \in {"Ok", "Trailing"}
    /\ result.val.kind = "Ok" <=> Unparsed = <<>>
    /\ result.val.kind = "Trailing" =>
         result.val.rest = IF MalformedHeader THEN input.text ELSE Unparsed
    /\ input.text = <<>> => result.val.kind = "Ok"

\* C29, amended: a rejected text gives Trailing(r), never Failed, with r the
\* text from the start of the first line that could not be parsed; r is the
\* whole text when the header does not start with its oid and head lines,
\* and starts at a later header line when that line is malformed or out of
\* order; a last line without its newline is such a line, and the empty
\* text is accepted as the empty result
C29_TrailingFromFirstUnparsedLine ==
  Settled =>
    /\ result.val.kind \in {"Ok", "Trailing"}
    /\ result.val.kind = "Ok" <=> Unparsed = <<>>
    /\ result.val.kind = "Trailing" =>
         /\ result.val.rest = Unparsed
         /\ IsSuffix(result.val.rest, input.text)
    /\ (MalformedHeader /\ input.kind = "header" /\ TakenByBranch(input.header) = 0) =>
         result.val.rest = input.text
    /\ input.text = <<>> =>
         /\ result.val.kind = "Ok"
         /\ input.kind = "pairs" => result.val.val = <<>>
         /\ input.kind # "pairs" => result.val.val = Status_default

\* oid, head, ab, upstream: Trailing starts at the upstream line, not at
\* the start of the text
C29_Witness ==
  /\ Settled
  /\ input.kind = "header"
  /\ Slots = <<"oid", "head", "ab", "upstream">>
  /\ result.val.kind = "Trailing"
  /\ result.val.rest = input.header[4].text \o Concat(input.lines)
  /\ result.val.rest # input.text

\* a good header, a good line, and a last line without its newline:
\* Trailing is that last line
C29_WitnessUnterminated ==
  /\ Settled
  /\ input.kind = "lines"
  /\ input.in.header = HdrClean
  /\ Len(input.in.before) = 1
  /\ input.in.bad = <<>>
  /\ input.in.tail # <<>>
  /\ result.val.kind = "Trailing"
  /\ result.val.rest = input.in.tail

\* a good pair line and a pair line of 39 digits: Trailing is the second
C29_WitnessPairs ==
  /\ Settled
  /\ input.kind = "pairs"
  /\ Len(input.lines) = 2
  /\ input.lines[1].good
  /\ ~input.lines[2].good
  /\ result.val.kind = "Trailing"
  /\ result.val.rest = PairText(input.lines[2])


Execd == pc = "returned" /\ input.kind = "exec"

\* the name of the error of a source, as the providers give it
SourceError ==
  CASE input.source = "LsRemote" -> "LsRemote"
    [] input.source = "GetStatus" -> "Status"
    [] input.source = "ForEachRef" -> "ForEachRef"

\* C30: exec_and_parse gives Error::Exec when the process was not spawned;
\* else the error of the source with stderr when it exited non-zero,
\* whatever stdout holds and whatever the parser would do with it; else
\* Error::Utf8 when stdout is not UTF-8; else Error::Parse when the parser
\* fails; and a value only when all four steps succeed
C30_FailuresInFixedOrder ==
  Execd =>
    /\ ~input.out.spawned => result.val = [ok |-> FALSE, err |-> "Exec"]
    /\ (input.out.spawned /\ ~input.out.success) =>
         result.val = [ok |-> FALSE, err |-> SourceError, msg |-> input.out.stderr]
    /\ (input.out.spawned /\ input.out.success /\ ~input.out.utf8) =>
         result.val = [ok |-> FALSE, err |-> "Utf8"]
    /\ (input.out.spawned /\ input.out.success /\ input.out.utf8
        /\ ~IsPanic(input.parsed) /\ input.parsed.kind # "Ok") =>
         result.val = [ok |-> FALSE, err |-> "Parse"]
    /\ (~IsPanic(result.val) /\ result.val.ok) <=>
         (input.out.spawned /\ input.out.success /\ input.out.utf8
          /\ ~IsPanic(input.parsed) /\ input.parsed.kind = "Ok")
    /\ (~IsPanic(result.val) /\ result.val.ok) => result.val.val = input.parsed.val

\* git status exits non-zero with stdout that is not UTF-8: the error is
\* Status with stderr, not Utf8
C30_Witness ==
  /\ Execd
  /\ input.via = "get"
  /\ input.source = "GetStatus"
  /\ input.out.spawned
  /\ ~input.out.success
  /\ ~input.out.utf8
  /\ result.val = [ok |-> FALSE, err |-> "Status", msg |-> NotARepo]

\* a parser that would panic is not run when the exit is non-zero
C30_WitnessParserNotRun ==
  /\ Execd
  /\ IsPanic(input.parsed)
  /\ ~input.out.success
  /\ input.out.spawned
  /\ ~IsPanic(result.val)
  /\ result.val.err = SourceError

\* git ls-remote prints a line with a space for the tab: Error::Parse
C30_WitnessParse ==
  /\ Execd
  /\ input.via = "get"
  /\ input.source = "LsRemote"
  /\ input.out.stdout # <<>>
  /\ input.out.success
  /\ result.val = [ok |-> FALSE, err |-> "Parse"]

====
